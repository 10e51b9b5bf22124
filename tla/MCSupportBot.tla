--------------------------- MODULE MCSupportBot ---------------------------
(***************************************************************************)
(* Small instances of the two halves of the support bot.  They share a     *)
(* database but no row, so a behaviour is one of either half: part says    *)
(* which; a third choice is a long text that is to be cut.                 *)
(***************************************************************************)
EXTENDS SupportInbox, SupportOutbox, SupportText

CONSTANTS k1, k2, promise, answer

PartsOfText == promise :> 1 @@ answer :> 2

VARIABLE part

MaxText == 6  \* bound: length of the texts
ShortTexts == BoundedSeq(Letters, MaxText)

MCInit ==
  /\ Init /\ OutInit
  /\ \/ part \in {"inbox", "outbox"} /\ text = << >>
     \/ part = "text" /\ text \in Answers

MCNext ==
  /\ UNCHANGED <<part, text>>
  /\ \/ part = "inbox" /\ Next /\ UNCHANGED outVars
     \/ part = "outbox" /\ OutNext /\ UNCHANGED vars

MCSpec == MCInit /\ [][MCNext]_<<vars, outVars, part, text>> /\ Fairness
=============================================================================
