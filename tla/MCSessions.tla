---------------------------- MODULE MCSessions ----------------------------
(***************************************************************************)
(* Small instances of what runs as long as the server does: each behaviour *)
(* belongs to one part, and the others rest.                               *)
(***************************************************************************)
EXTENDS EventBroker, DeviceHandler, Startup

VARIABLE part

\* One device may send several messages while another sends one.
OneMessage ==
  \A s \in Sessions : received'[s] > 1 => \A t \in Sessions \ {s} : received'[t] <= 1

MCInit ==
  /\ part \in {"broker", "handler", "startup"}
  /\ BrokerInit /\ HandlerInit /\ StartupInit

MCNext ==
  /\ UNCHANGED part
  /\ \/ part = "broker" /\ BrokerNext
     \/ part # "broker" /\ UNCHANGED brokerVars
  /\ \/ part = "handler" /\ HandlerNext /\ OneMessage
     \/ part # "handler" /\ UNCHANGED handlerVars
  /\ \/ part = "startup" /\ StartupNext
     \/ part # "startup" /\ UNCHANGED startupVars

MCSpec ==
  /\ MCInit
  /\ [][MCNext]_<<part, brokerVars, handlerVars, startupVars>>
  /\ \A p \in EventPublishers : WF_brokerVars(part = "broker" /\ PublisherStep(p))
  /\ \A s \in Streams : WF_brokerVars(part = "broker" /\ SubscriptionStep(s))
  /\ \A s \in Sessions : WF_handlerVars(part = "handler" /\ LoopStep(s))
  /\ WF_handlerVars(part = "handler" /\ GoroutineStep)
  /\ WF_startupVars(part = "startup" /\ ProcessStep)
=============================================================================
