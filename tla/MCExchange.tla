----------------------------- MODULE MCExchange ----------------------------
(***************************************************************************)
(* The parts of a node that must make progress: the command file, the      *)
(* broadcast of algorithm tokens and the headless daemon.  A behaviour     *)
(* picks one of them and runs it alone: they share no variable.            *)
(***************************************************************************)
EXTENDS FileCommand, AlgoShare, HeadlessSwarm

CONSTANTS ta, tb, tc

VARIABLE part

MCFitness == [t \in {ta, tb, tc} |-> IF t = ta THEN 3 ELSE IF t = tb THEN 5 ELSE 7]

ExchangeInit ==
    /\ part \in {"file", "tokens", "headless"}
    /\ FileInit /\ AlgoInit /\ HeadlessInit
    \* what other parts leave open is fixed
    /\ part # "file" => cmd = <<"absent">>
    /\ part # "headless" => hsConsent = "yes" /\ tier = "full"

\* the parts that do not run stand still
Others ==
    /\ UNCHANGED part
    /\ IF part = "file" THEN TRUE ELSE UNCHANGED fileVars
    /\ IF part = "tokens" THEN TRUE ELSE UNCHANGED asVars
    /\ IF part = "headless" THEN TRUE ELSE UNCHANGED hsVars

ExchangeNext ==
    \/ part = "file" /\ FileNext /\ Others
    \/ part = "tokens" /\ AlgoNext /\ Others
    \/ part = "headless" /\ HeadlessNext /\ Others

allVars == <<part, fileVars, asVars, hsVars>>

\* the fairness of the part that runs; the steps of the others are never possible
Step(p, A) == part = p /\ A /\ Others
ExchangeFairness ==
    /\ WF_allVars(Step("file", Poll))
    /\ \A c \in Clients : WF_allVars(Step("file", ClientFills(c)))
    /\ WF_allVars(Step("tokens", \E S \in SUBSET tokens : FetchTokens(S)))
    /\ WF_allVars(Step("headless", RunnerSteps)) /\ WF_allVars(Step("headless", GossipSteps))
    /\ \A w \in Workers : WF_allVars(Step("headless", WorkerSteps(w)))
ExchangeSpec == ExchangeInit /\ [][ExchangeNext]_allVars /\ ExchangeFairness

\* Every variable of the parts keeps its type.
ExchangeTypeOK == FileTypeOK /\ AlgoTypeOK /\ HeadlessTypeOK
=============================================================================
