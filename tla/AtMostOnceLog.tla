---------------------------- MODULE AtMostOnceLog ----------------------------
(***************************************************************************)
(* What the callers of the on-chain logger rely on, with no transaction,   *)
(* nonce or node in sight: an entry is written to the trail at most once,  *)
(* only after it was asked for, and before its caller is told so.  A       *)
(* caller that is told of an error knows nothing: the entry may have been  *)
(* written, may be written later, or never.                                *)
(***************************************************************************)
EXTENDS Naturals

CONSTANT Entries

VARIABLES
  asked,     (* entries somebody asked to write                            *)
  written,   (* how often the trail holds each entry                       *)
  answer     (* what the caller of each entry was told                     *)

logVars == <<asked, written, answer>>

TypeOK ==
  /\ asked \subseteq Entries
  /\ written \in [Entries -> Nat]
  /\ answer \in [Entries -> {"none", "ok", "error"}]

Init ==
  /\ asked = {}
  /\ written = [e \in Entries |-> 0]
  /\ answer = [e \in Entries |-> "none"]

Ask(e) ==
  /\ e \notin asked
  /\ asked' = asked \cup {e}
  /\ UNCHANGED <<written, answer>>

Write(e) ==
  /\ e \in asked
  /\ written[e] = 0
  /\ written' = [written EXCEPT ![e] = 1]
  /\ UNCHANGED <<asked, answer>>

Confirm(e) ==
  /\ e \in asked
  /\ written[e] = 1
  /\ answer[e] = "none"
  /\ answer' = [answer EXCEPT ![e] = "ok"]
  /\ UNCHANGED <<asked, written>>

Fail(e) ==
  /\ e \in asked
  /\ answer[e] = "none"
  /\ answer' = [answer EXCEPT ![e] = "error"]
  /\ UNCHANGED <<asked, written>>

Next == \E e \in Entries : Ask(e) \/ Write(e) \/ Confirm(e) \/ Fail(e)

Spec == Init /\ [][Next]_logVars

=============================================================================
