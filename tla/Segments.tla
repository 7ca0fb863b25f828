------------------------------ MODULE Segments ------------------------------
(***************************************************************************)
(* Arithmetic of segments, shared by the processors that collect packets   *)
(* into segments: segmented_inference.py and mdx23c_vocals.py.             *)
(***************************************************************************)
EXTENDS Integers, Sequences

\* round(n / d): half of the way goes to the even neighbour.
RoundDiv(n, d) ==
  LET floor == n \div d
      twice == 2 * (n % d)
  IN  IF twice > d \/ (twice = d /\ floor % 2 = 1) THEN floor + 1 ELSE floor

FramesOf(packets) ==
  LET sum[n \in 0..Len(packets)] == IF n = 0 THEN 0 ELSE sum[n - 1] + packets[n].frames
  IN  sum[Len(packets)]

\* How many packets the popleft loop of _launch_segment takes: it goes on while
\* packets remain and the frames taken so far do not reach the target.
PacketsTaken(packets, target) ==
  CHOOSE n \in 0..Len(packets) :
    /\ n = Len(packets) \/ FramesOf(SubSeq(packets, 1, n)) >= target
    /\ \A m \in 0..(n - 1) : FramesOf(SubSeq(packets, 1, m)) < target

\* The numbers of packets, by which they are told apart.
Numbers(q) == [k \in 1..Len(q) |-> q[k].number]

First(q) == IF q = <<>> THEN <<>> ELSE <<Head(q)>>
Rest(q)  == SubSeq(q, 2, Len(q))
After(q, n) == SubSeq(q, n + 1, Len(q))
=============================================================================
