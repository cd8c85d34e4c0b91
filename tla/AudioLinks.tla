----------------------------- MODULE AudioLinks -----------------------------
(***************************************************************************)
(* What the sessions of a server promise, with no handshake, socket or     *)
(* process in it.  A link leads from one end of a session to the other.    *)
(* The two command lines alone decide whether sound flows in it and in     *)
(* which codec.  Each of its two tasks is started at most once; a frame is *)
(* received once, after it was sent, and by a task that can decode it.     *)
(* Session.tla implements this.                                            *)
(***************************************************************************)
EXTENDS Integers

CONSTANTS
  Links,     \* the directions of all sessions
  Limit      \* how many frames a link holds

VARIABLES
  wanted,    \* the links the command lines ask for
  codec,     \* and their codecs: "raw" or "opus"
  sender,    \* the record task of each link: "none", its codec, "over"
  receiver,  \* its playback task
  flight     \* the number of frames sent and not received

Tasks == {"none", "raw", "opus", "over"}

Init ==
  /\ wanted \subseteq Links /\ codec \in [Links -> {"raw", "opus"}]
  /\ sender = [l \in Links |-> "none"] /\ receiver = [l \in Links |-> "none"]
  /\ flight = [l \in Links |-> 0]

StartSender(l) ==
  /\ l \in wanted /\ sender[l] = "none"
  /\ sender' = [sender EXCEPT ![l] = codec[l]]
  /\ UNCHANGED <<wanted, codec, receiver, flight>>

StartReceiver(l) ==
  /\ l \in wanted /\ receiver[l] = "none"
  /\ receiver' = [receiver EXCEPT ![l] = codec[l]]
  /\ UNCHANGED <<wanted, codec, sender, flight>>

Send(l) ==
  /\ sender[l] = codec[l] /\ flight[l] < Limit
  /\ flight' = [flight EXCEPT ![l] = @ + 1]
  /\ UNCHANGED <<wanted, codec, sender, receiver>>

Receive(l) ==
  /\ receiver[l] = codec[l] /\ flight[l] > 0
  /\ flight' = [flight EXCEPT ![l] = @ - 1]
  /\ UNCHANGED <<wanted, codec, sender, receiver>>

(* Tasks end at any time, and all those of a process at once.              *)
EndsOrNot(old, new) == new = old \/ (old # "none" /\ new = "over")

End ==
  /\ sender' \in [Links -> Tasks] /\ receiver' \in [Links -> Tasks]
  /\ \A l \in Links : /\ EndsOrNot(sender[l], sender'[l])
                      /\ EndsOrNot(receiver[l], receiver'[l])
  /\ UNCHANGED <<wanted, codec, flight>>

Next ==
  \/ End
  \/ \E l \in Links :
       StartSender(l) \/ StartReceiver(l) \/ Send(l) \/ Receive(l)

Spec == Init /\ [][Next]_<<wanted, codec, sender, receiver, flight>>
=============================================================================
