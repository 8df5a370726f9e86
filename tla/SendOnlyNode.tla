---------------------------- MODULE SendOnlyNode ----------------------------
(***************************************************************************)
(* The send-only nodes of a MultiNode (send_only_node.go and               *)
(* send_only_node_lifecycle.go): one chain ID check at the start and, when *)
(* it fails, a goroutine that repeats it until it succeeds.  A node that   *)
(* cannot be dialled is never tried again.                                 *)
(***************************************************************************)
EXTENDS Naturals

CONSTANTS
  SendOnly,      \* the send-only nodes
  Unchecked      \* those whose configured chain ID is "0"

ASSUME SendOnlyAssumption == Unchecked \subseteq SendOnly

VARIABLES
  soState,       \* state of each node
  soPc,          \* what runs for it: start, verifyLoop or Close
  soStopped      \* chStop is closed

soVars == <<soState, soPc, soStopped>>

SendOnlyState == {"Undialed", "Dialed", "Unusable", "Unreachable",
                  "InvalidChainID", "Alive", "Closed"}

SendOnlyInit ==
  /\ soState = [s \in SendOnly |-> "Undialed"]
  /\ soPc = [s \in SendOnly |-> "none"]
  /\ soStopped = [s \in SendOnly |-> FALSE]

setState(s, st) == soState' = [soState EXCEPT ![s] = st]
SoGoto(s, pc) == soPc' = [soPc EXCEPT ![s] = pc]

\* start: Dial, once in the life of the node.
SoDial(s, ok) ==
  /\ soState[s] = "Undialed" /\ ~soStopped[s]
  /\ IF ok THEN setState(s, "Dialed") /\ SoGoto(s, "check")
           ELSE setState(s, "Unusable") /\ UNCHANGED soPc
  /\ UNCHANGED soStopped

\* The state that the answer to ChainID stands for.
Checked(answer) ==
  CASE answer = "same" -> "Alive"
    [] answer = "error" -> "Unreachable"
    [] answer = "other" -> "InvalidChainID"

\* start: the check, and verifyLoop when it fails.
SoCheck(s, answer) ==
  /\ soPc[s] = "check"
  /\ s \in Unchecked => answer = "same"
  /\ setState(s, Checked(answer))
  /\ SoGoto(s, IF answer = "same" THEN "none" ELSE "verify")
  /\ UNCHANGED soStopped

\* Mutant of Verified: a failed check ends the loop as well.
VerifiedEnds(s, answer) ==
  /\ setState(s, Checked(answer))
  /\ SoGoto(s, "none")

Verified(s, answer) ==
  /\ setState(s, Checked(answer))
  /\ SoGoto(s, IF answer = "same" THEN "none" ELSE "verify")

(***************************************************************************)
(* verifyLoop after a back-off: ChainID again.  IfStarted refuses the new  *)
(* state once Close has begun, and the loop ends.                          *)
(***************************************************************************)
SoVerify(s, answer) ==
  /\ soPc[s] = "verify"
  /\ IF soStopped[s] THEN SoGoto(s, "none") /\ UNCHANGED soState
                     ELSE Verified(s, answer)
  /\ UNCHANGED soStopped

\* Close, and its end once verifyLoop has returned.
SoClose(s) ==
  /\ soPc[s] \in {"none", "verify"} /\ soState[s] # "Undialed"
  /\ ~soStopped[s]
  /\ soStopped' = [soStopped EXCEPT ![s] = TRUE]
  /\ UNCHANGED <<soState, soPc>>

SoCloseReturns(s) ==
  /\ soStopped[s] /\ soPc[s] = "none" /\ soState[s] # "Closed"
  /\ setState(s, "Closed")
  /\ UNCHANGED <<soPc, soStopped>>

SendOnlyStep(s) ==
  \/ \E ok \in BOOLEAN : SoDial(s, ok)
  \/ \E answer \in {"same", "error", "other"} :
       SoCheck(s, answer) \/ SoVerify(s, answer)
  \/ SoClose(s) \/ SoCloseReturns(s)
=============================================================================
