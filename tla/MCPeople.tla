------------------------------- MODULE MCPeople -------------------------------
(* Instances of UserSessions and Rewards for TLC, side by side: they share   *)
(* no state, so that their steps need not be interleaved.                    *)
EXTENDS MCUsers, Sequences

CONSTANTS Responses, Forms, Day, KoreaOffset, Validity, MaxTime, MaxAttempts
CONSTANTS NoResponse, NoForm, NoAnswer

VARIABLES now, completed, account, response, charges, lock, claim, answer, attempts

rewards == <<now, completed, account, response, charges, lock, claim, answer, attempts>>

VARIABLE component   \* the one that takes steps

R == INSTANCE Rewards WITH session <- claim

\* Bodies that are accepted, and one for each rule that refuses others; the
\* same model values stand for users and responses.
Form(actions, reasons, action_other, next_context) ==
  [context |-> "sns", actions |-> actions, reasons |-> reasons, context_other |-> "none",
   action_other |-> action_other, reason_other |-> "none", next_context |-> next_context]

SomeForms ==
  { Form(<<"sns">>, <<>>, "none", "text"),
    Form(<<"viewed_only">>, <<"no_situation">>, "none", "none"),
    Form(<<"saved", "saved">>, <<"no_situation">>, "none", "none"),
    Form(<<"viewed_only", "sns">>, <<>>, "none", "none"),
    Form(<<"sns">>, <<"no_situation">>, "none", "none"),
    Form(<<"other">>, <<>>, "text", "none"),
    Form(<<"other">>, <<"no_situation">>, "blank", "none"),
    Form(<<"sns">>, <<>>, "text", "none"),
    Form(<<"sns">>, <<>>, "none", "long"),
    Form(<<>>, <<"no_situation">>, "none", "none") }

ASSUME R!RewardsAssumption

MCInit ==
  /\ Init /\ R!Init
  /\ component = "rewards" \/ (component = "users" /\ ~account)

MCNext ==
  \/ component = "users" /\ Next /\ UNCHANGED <<rewards, component>>
  \/ component = "rewards" /\ R!Next /\ UNCHANGED <<vars, component>>

\* Bound: logins begun and users deactivated.
FewChanges ==
  Cardinality(states) + Cardinality({u \in Ids : users[u].status = "INACTIVE"}) <= 2

MCSpec == MCInit /\ [][MCNext]_<<vars, rewards, component>>

\* The properties of Rewards, for the instance above.
SurveyRewardedOnce == R!SurveyRewardedOnce
DailyRewardKept == R!DailyRewardKept
=============================================================================
