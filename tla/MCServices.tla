------------------------------ MODULE MCServices ------------------------------
(* The services around trading: dashboard, proxy tunnel, and main with the   *)
(* trade recorder.  Each runs with the others at rest.                       *)
EXTENDS WebUi, ProxyTunnel, Engine, TLC

CONSTANTS o1, o2, o3

MCPnls == {-1, 2}
MCOrderId == o1 :> 1 @@ o2 :> 2 @@ o3 :> 3
MCMarketOf == o1 :> "spot" @@ o2 :> "futures" @@ o3 :> "spot"
MCStrategyOf == o1 :> "momentum" @@ o2 :> "reversion" @@ o3 :> "momentum"

\* Every market numbers its orders by itself.
MCIdPerMarket == o1 :> 1 @@ o2 :> 1 @@ o3 :> 2

VARIABLE part  \* the component that runs: "webui", "tunnel" or "engine"

servicesVars == <<webVars, tunnelVars, engineVars, part>>

ServicesInit ==
  /\ WebInit /\ TunnelInit /\ EngineInit
  /\ part \in {"webui", "tunnel", "engine"}
  /\ part # "webui" => maxClients = 1

OnlyWeb == part = "webui" /\ UNCHANGED <<tunnelVars, engineVars, part>>
OnlyTunnel == part = "tunnel" /\ UNCHANGED <<webVars, engineVars, part>>
OnlyEngine == part = "engine" /\ UNCHANGED <<webVars, tunnelVars, part>>

ServicesNext ==
  \/ WebNext /\ OnlyWeb
  \/ TunnelNext /\ OnlyTunnel
  \/ EngineNext /\ OnlyEngine

\* The fairness of each: see WebSpec and TunnelSpec.
ServicesSpec ==
  /\ ServicesInit /\ [][ServicesNext]_servicesVars
  /\ WF_servicesVars(pollLoop /\ OnlyWeb)
  /\ WF_servicesVars(eventLoop /\ OnlyWeb)
  /\ WF_servicesVars(mainThread /\ OnlyWeb)
  /\ WF_servicesVars(acceptThread /\ OnlyTunnel)
  /\ WF_servicesVars(handleConnection /\ OnlyTunnel)
  /\ WF_servicesVars(relayData /\ OnlyTunnel)
  /\ WF_servicesVars(stop /\ OnlyTunnel)
  /\ ProxyAnswers => WF_servicesVars((\E c \in Connections : proxyAnswers(c)) /\ OnlyTunnel)
  /\ ExchangeEnds => WF_servicesVars((\E c \in Connections : exchangeCloses(c)) /\ OnlyTunnel)
=============================================================================
