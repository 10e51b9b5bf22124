---------------------------- MODULE MCAiTools ----------------------------
(***************************************************************************)
(* Small instances of the tools around the AI: product photos (Studio),    *)
(* replies to reviews, the daily brief, the index of the offer, tasks from *)
(* the comparison with competitors.  They share no row, so a behaviour is  *)
(* one of any: part says which.                                            *)
(***************************************************************************)
EXTENDS Studio, ReviewReplies, DailyBrief, OfferIndex, AiTasks, TLC

CONSTANTS w1, w2, c1, c2, v1, v2, o1

VARIABLE part

Parts == {"studio", "replies", "brief", "offer", "tasks"}

Symmetry == Permutations({w1, w2}) \cup Permutations({c1, c2})

MCInit ==
  /\ StudioInit /\ ReplyInit /\ BriefInit /\ OfferInit /\ AiInit
  /\ part \in Parts
  /\ newest = v1    \* the versions are alike

MCNext ==
  /\ UNCHANGED part
  /\ \/ /\ part = "studio" /\ StudioNext
        /\ UNCHANGED <<replyVars, briefVars, offerVars, aiVars>>
     \/ /\ part = "replies" /\ ReplyNext
        /\ UNCHANGED <<studioVars, briefVars, offerVars, aiVars>>
     \/ /\ part = "brief" /\ BriefNext
        /\ UNCHANGED <<studioVars, replyVars, offerVars, aiVars>>
     \/ /\ part = "offer" /\ OfferNext
        /\ UNCHANGED <<studioVars, replyVars, briefVars, aiVars>>
     \/ /\ part = "tasks" /\ AiNext
        /\ UNCHANGED <<studioVars, replyVars, briefVars, offerVars>>

MCSpec == MCInit /\ [][MCNext]_<<studioVars, replyVars, briefVars, offerVars, aiVars, part>>
=============================================================================
