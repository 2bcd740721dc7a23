---------------------------- MODULE RunLifecycle ----------------------------
(* The life of a run: internal/domain/run.go, a module without state.       *)
(* A state of the run, an event and the state the event leads to form a     *)
(* move; `Transition` of the source is the partial function that `Moves`    *)
(* is the graph of (it returns an error where `Moves` has no triple).       *)

RunStates ==
    {"CREATED", "PREPARING", "IMPLEMENTING", "VERIFYING", "AWAITING_APPROVAL",
     "REWORKING", "COMPLETED", "REJECTED", "FAILED", "CANCELED",
     "RECOVERY_REQUIRED"}

Terminal == {"COMPLETED", "REJECTED", "FAILED", "CANCELED", "RECOVERY_REQUIRED"}

Decisions == {"approve", "request_rework", "reject", "cancel"}

Events ==
    {"preparation_started", "implementation_started",
     "implementation_finished", "verification_finished", "approved",
     "rework_requested", "rejected", "canceled", "failed", "write_ambiguous"}

transitions ==
    {<<"CREATED", "preparation_started", "PREPARING">>,
     <<"PREPARING", "implementation_started", "IMPLEMENTING">>,
     <<"IMPLEMENTING", "implementation_finished", "VERIFYING">>,
     <<"VERIFYING", "verification_finished", "AWAITING_APPROVAL">>,
     <<"AWAITING_APPROVAL", "approved", "COMPLETED">>,
     <<"AWAITING_APPROVAL", "rework_requested", "REWORKING">>,
     <<"AWAITING_APPROVAL", "rejected", "REJECTED">>,
     <<"REWORKING", "implementation_started", "IMPLEMENTING">>}

\* The events Transition answers before it looks into the table.
interrupts ==
    {<<"canceled", "CANCELED">>, <<"failed", "FAILED">>,
     <<"write_ambiguous", "RECOVERY_REQUIRED">>}

Moves ==
    {m \in (RunStates \ Terminal) \X Events \X RunStates :
        m \in transitions \/ <<m[2], m[3]>> \in interrupts}

Accepts(state, event) == \E next \in RunStates : <<state, event, next>> \in Moves

\* The event engine.Decide raises for a decision.
EventOf ==
    [approve |-> "approved", request_rework |-> "rework_requested",
     reject |-> "rejected", cancel |-> "canceled"]

DecisionEvents == {"approved", "rework_requested", "rejected", "canceled"}

\* The states these events lead to.
Decided == {"COMPLETED", "REWORKING", "REJECTED", "CANCELED"}
=============================================================================
