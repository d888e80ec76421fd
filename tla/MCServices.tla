----------------------------- MODULE MCServices ----------------------------
(***************************************************************************)
(* The services of a node that are checked for safety.  A behaviour picks  *)
(* one of them and runs it alone: they share no variable.                  *)
(***************************************************************************)
EXTENDS SwarmNode, MCSwarmController, BlindspotEngine, TaskBroker, ConsensusEngine,
        SessionChain, AnchorPool, HintRelay, FileCommand

CONSTANTS a1, g1, g2, h1, h2, h3, d1, p1, p2, m1, m2, m3, alice, bob, carl,
          n1, n2, n3, b1, b2, b3

VARIABLE part

MCDomainOf == [g \in {g1, g2} |-> d1]
MCGapOf == [h \in {h1, h2, h3} |-> g1]
MCHintDomain == [h \in {h1, h2, h3} |-> d1]
MCUserOf == [a \in {m1, m2, m3} |-> IF a = m3 THEN 2 ELSE 1]
MCBundles == 1..4
MCBuilderOf == [b \in MCBundles |-> IF b \in {1, 3} THEN p1 ELSE p2]
MCPseudonymOf == [b \in MCBundles |-> IF b \in {1, 3} THEN alice ELSE IF b = 2 THEN bob ELSE carl]

\* three nodes in a ring, each of which sends to the next
MCEdges == {<<n1, n2>>, <<n2, n3>>, <<n3, n1>>}
MCMakerOf == [h \in {b1, b2, b3} |-> IF h = b3 THEN n3 ELSE n1]

ServicesInit ==
    /\ part \in {"agent", "node", "controller", "blindspot", "broker", "consensus", "chain",
                 "pool", "hints", "file"}
    /\ NodeInit /\ CtrlInit /\ BlindspotInit /\ BrokerInit /\ ConsensusInit /\ ChainInit
    /\ PoolInit /\ HintRelayInit /\ FileInit
    \* what other parts leave open is fixed
    /\ part # "node" => consent
    /\ part \notin {"agent", "node"} => ~mode
    /\ part # "controller" => status = "none"
    /\ part # "file" => cmd = <<"absent">>

\* the parts that do not run stand still
Others ==
    /\ UNCHANGED part
    /\ IF part \in {"agent", "node"} THEN TRUE ELSE UNCHANGED nodeVars
    /\ IF part = "controller" THEN TRUE ELSE UNCHANGED ctrlVars
    /\ IF part = "blindspot" THEN TRUE ELSE UNCHANGED bsVars
    /\ IF part = "broker" THEN TRUE ELSE UNCHANGED tbVars
    /\ IF part = "consensus" THEN TRUE ELSE UNCHANGED ceVars
    /\ IF part = "chain" THEN TRUE ELSE UNCHANGED scVars
    /\ IF part = "pool" THEN TRUE ELSE UNCHANGED apVars
    /\ IF part = "hints" THEN TRUE ELSE UNCHANGED hrVars
    /\ IF part = "file" THEN TRUE ELSE UNCHANGED fileVars

\* the agent alone, with three starts; the node with one
AgentNext == Next /\ UNCHANGED <<metricsVars, cli, gossip>>
NodeOfOneNext == NodeNext /\ \A t \in Threads \ {a1} : tpc'[t] = tpc[t]

ServicesNext ==
    \/ part = "agent" /\ AgentNext /\ Others
    \/ part = "node" /\ NodeOfOneNext /\ Others
    \/ part = "controller" /\ CtrlNext /\ Others
    \/ part = "blindspot" /\ BlindspotNext /\ Others
    \/ part = "broker" /\ BrokerNext /\ Others
    \/ part = "consensus" /\ ConsensusNext /\ Others
    \/ part = "chain" /\ ChainNext /\ Others
    \/ part = "pool" /\ PoolNext /\ Others
    \/ part = "hints" /\ HintRelayNext /\ Others
    \/ part = "file" /\ FileNext /\ Others

allVars == <<part, nodeVars, ctrlVars, bsVars, tbVars, ceVars, scVars, apVars, hrVars,
             fileVars>>
ServicesSpec == ServicesInit /\ [][ServicesNext]_allVars

\* Every variable of the services keeps its type.
ServicesTypeOK ==
    NodeTypeOK /\ CtrlTypeOK /\ BlindspotTypeOK /\ BrokerTypeOK /\ ConsensusTypeOK
        /\ ChainTypeOK /\ PoolTypeOK /\ HintTypeOK /\ FileTypeOK
=============================================================================
