----------------------------- MODULE ByteWindow -----------------------------
(***************************************************************************)
(* What the ring buffer of libaudiowire promises its callers: a window on  *)
(* the newest bytes pushed into it.  A push that does not fit drops the    *)
(* oldest bytes; a pop takes bytes off the window in the order they were   *)
(* pushed.  RingBuf.tla implements this specification with a circular      *)
(* array.                                                                  *)
(***************************************************************************)
EXTENDS Integers, Sequences

CONSTANTS
  Limit,    \* number of bytes the window can hold
  Buffers,  \* the byte sequences callers push
  Reads     \* the requests callers pop with: records [size, offset]

VARIABLES
  window,   \* the bytes held, oldest first
  result,   \* the bytes the last call handed to its caller
  call      \* the last call and its argument: an implementation does what
            \* THIS call promises, not what some call could have done

vars == <<window, result, call>>

(* The last n bytes of s, and the first n; all of s when it is shorter.    *)
Newest(s, n) == IF Len(s) <= n THEN s ELSE SubSeq(s, Len(s) - n + 1, Len(s))
Oldest(s, n) == IF Len(s) <= n THEN s ELSE SubSeq(s, 1, n)

Init == window = <<>> /\ result = <<>> /\ call = <<"create">>

Push(buf) ==
  /\ window' = Newest(window \o buf, Limit)
  /\ result' = <<>>

PopFront(size) ==
  /\ result' = Oldest(window, size)
  /\ window' = Newest(window, Len(window) - Len(result'))

(* Takes the newest bytes; the older ones are skipped, so nothing is left. *)
PopBack(size) ==
  /\ result' = Newest(window, size)
  /\ window' = <<>>

(* Skips all but the newest "offset" bytes, then pops from the front.      *)
PopBackFrom(size, offset) ==
  LET kept == Newest(window, offset)
  IN /\ result' = Oldest(kept, size)
     /\ window' = Newest(kept, Len(kept) - Len(result'))

Flush == window' = <<>> /\ result' = <<>>

Next ==
  \/ \E buf \in Buffers : Push(buf) /\ call' = <<"push", buf>>
  \/ \E r \in Reads :
       \/ PopFront(r.size) /\ call' = <<"pop_front", r>>
       \/ PopBack(r.size) /\ call' = <<"pop_back", r>>
       \/ PopBackFrom(r.size, r.offset) /\ call' = <<"pop_back_from", r>>
  \/ Flush /\ call' = <<"flush">>

Spec == Init /\ [][Next]_vars
=============================================================================
