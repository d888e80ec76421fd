------------------------------ MODULE MCFiles ------------------------------
(***************************************************************************)
(* The files of a node: the consent, the groups and chats, the quarantine, *)
(* the vault with its packs, the account with the claims that name it, and *)
(* the overlay's process number.  A behaviour picks one of them and runs   *)
(* it alone: they share no variable.                                       *)
(***************************************************************************)
EXTENDS MCSwarmConsent, GroupState, Quarantine, PackVault, AccountBinding, OverlayProcess

CONSTANTS sig1, sig2, sig3, anc1, anc2, anc3, pack1, pack2, pack3

VARIABLE part

\* the third signal is similar to the first
MCAlike == {<<s, s>> : s \in {sig1, sig2, sig3}} \cup {<<sig3, sig1>>, <<sig1, sig3>>}

\* two packs that share an anchor, and one without a file
MCAnchorsOf == [p \in {pack1, pack2, pack3} |->
                  IF p = pack1 THEN <<anc1, anc2>> ELSE IF p = pack2 THEN <<anc2, anc3>> ELSE <<>>]

\* the pack without a file is made of what the node knows of one anchor
MCDomainOf == [p \in {pack1, pack2, pack3} |-> IF p = pack2 THEN {anc2, anc3} ELSE {anc1}]

consentVars == <<vars, setting>>
ConsentNext == Next /\ UNCHANGED setting /\ Allowed'

FilesInit ==
    /\ part \in {"consent", "groups", "quarantine", "vault", "account", "overlay"}
    /\ Init /\ setting \in {"threads", "mixed"}
    /\ GroupStateInit /\ QuarantineInit /\ PackVaultInit /\ BindingInit /\ OverlayInit
    \* what other parts leave open is fixed
    /\ part # "consent" => file = "absent" /\ setting = "mixed"
    /\ part # "account" => hw = "lan" /\ ~derivable

\* the parts that do not run stand still
Others ==
    /\ UNCHANGED part
    /\ IF part = "consent" THEN TRUE ELSE UNCHANGED consentVars
    /\ IF part = "groups" THEN TRUE ELSE UNCHANGED gsVars
    /\ IF part = "quarantine" THEN TRUE ELSE UNCHANGED qVars
    /\ IF part = "vault" THEN TRUE ELSE UNCHANGED pvVars
    /\ IF part = "account" THEN TRUE ELSE UNCHANGED abVars
    /\ IF part = "overlay" THEN TRUE ELSE UNCHANGED opVars

FilesNext ==
    \/ part = "consent" /\ ConsentNext /\ Others
    \/ part = "groups" /\ GroupStateNext /\ Others
    \/ part = "quarantine" /\ QuarantineNext /\ Others
    \/ part = "vault" /\ PackVaultNext /\ Others
    \/ part = "account" /\ BindingNext /\ Others
    \/ part = "overlay" /\ OverlayNext /\ Others

filesVars == <<part, consentVars, gsVars, qVars, pvVars, abVars, opVars>>
FilesSpec == FilesInit /\ [][FilesNext]_filesVars

\* Every variable of the part that runs keeps its type.
FilesTypeOK ==
    CASE part = "consent" -> TypeOK
      [] part = "groups" -> GroupStateTypeOK
      [] part = "quarantine" -> QuarantineTypeOK
      [] part = "vault" -> PackVaultTypeOK
      [] part = "account" -> BindingTypeOK
      [] part = "overlay" -> OverlayTypeOK
=============================================================================
