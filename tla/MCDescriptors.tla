--------------------------- MODULE MCDescriptors ---------------------------
(* Two processes, which is where pids begin to repeat, an open file that   *)
(* they can be handed, and a pipe of two words, written and read two words *)
(* at a time or one: writes that fit in part, reads that leave a word, and *)
(* words that wait behind others.                                          *)
EXTENDS Descriptors, TLC

Anonymous == Permutations(Ids)

(* No action looks at a pipe's history but to bound it, nor at the words   *)
(* in its queue but to move them; nor at anything of it once it is closed. *)
(* Whether it is in order now decides whether it will be, as long as every *)
(* step from here is; and words are told apart only from each other.       *)
InOrder(p) == p.overran \/ p.got \o p.queue = p.sent
Pattern(q) == [j, k \in DOMAIN q |-> q[j] = q[k]]

History(p) == IF p.alive THEN <<InOrder(p), p.overran, Pattern(p.queue)>> ELSE <<InOrder(p)>>

PipesSeen ==
    <<processes, procs, phase, fd_tables, opened, outdated,
      [i \in DOMAIN pipes |-> History(pipes[i])]>>
=============================================================================
