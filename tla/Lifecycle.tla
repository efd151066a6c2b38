------------------------------ MODULE Lifecycle ------------------------------
(***************************************************************************)
(* The declared state machine of an influencer: the generic transition     *)
(* table of core/state_machine.py and the table influencers/               *)
(* state_machine.py fills it with. Pure definitions, no state.             *)
(***************************************************************************)

\* InfluencerStatus, influencers/models.py
Status == {"draft", "active", "paused", "archived"}

\* INFLUENCER_TRANSITIONS, influencers/state_machine.py
Transitions ==
  [draft    |-> {"active", "archived"},
   active   |-> {"paused", "archived"},
   paused   |-> {"active", "archived"},
   archived |-> {}]

\* Fault: any other status will do.
CanTransition_Any(current, requested) == requested # current

\* StateMachine.can_transition through StateMachine.allowed_from
CanTransition(current, requested) == requested \in Transitions[current]

\* StateMachine.is_terminal
IsTerminal(status) == Transitions[status] = {}

=============================================================================
