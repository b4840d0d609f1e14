----------------------------- MODULE LiveStream -----------------------------
(***************************************************************************)
(* What a consumer of a live channel promises to whoever reads its file:   *)
(* the file is one run of consecutive chunks of one stream.  It grows at   *)
(* the end, it can be broken off, and a new one begins only after a break  *)
(* or when the stream itself is replaced by another.                       *)
(***************************************************************************)
EXTENDS Naturals, Sequences

VARIABLES
  file,   \* the chunks written, each [ts, n]: chunk n of stream ts
  open    \* the file can be continued

vars == <<file, open>>

\* Chunk after chunk of one stream.
Consecutive(f) ==
  \A i \in 1..Len(f) : f[i].ts = f[1].ts /\ f[i].n = f[1].n + i - 1

Init == file = <<>> /\ open = FALSE

Begin ==
  /\ Len(file') = 1
  /\ open' = TRUE
  /\ open => file'[1].ts # file[1].ts

Extend ==
  /\ open
  /\ Len(file') > Len(file)
  /\ \A i \in 1..Len(file) : file'[i] = file[i]
  /\ Consecutive(file')
  /\ UNCHANGED open

Break ==
  /\ open
  /\ open' = FALSE
  /\ UNCHANGED file

Next == Begin \/ Extend \/ Break

Spec == Init /\ [][Next]_vars
=============================================================================
