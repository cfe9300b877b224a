--------------------------- MODULE AccountMigration --------------------------
(* AccMigrateMetadata of consensus/pbft/migration, the record a shard       *)
(* leader keeps of the migration of accounts at the start of an epoch:      *)
(*    Epoch, MigrationReady                                                 *)
(*    CurModifiedMap           the accounts that move, and where to         *)
(*    MigratedAccountStates    for every shard heard of, the balances of    *)
(*                             the accounts it sends here                   *)
(*    unhandledStateMsg        messages of epochs yet to come               *)
EXTENDS TLC, Sequences, FiniteSets, Integers

Empty == [k \in {} |-> 0]

NewAccMigrateMetadata ==
    [Epoch |-> 0, MigrationReady |-> FALSE, CurModifiedMap |-> Empty,
     MigratedAccountStates |-> Empty, unhandledStateMsg |-> {}]

(* Bug: the states collected in the epoch stay.                             *)
Bug_KeepCollected(am) ==
    [am EXCEPT !.CurModifiedMap = Empty, !.MigrationReady = FALSE,
               !.unhandledStateMsg = {m \in @ : m.Epoch # am.Epoch}]

MigrationStatusReset(am) ==
    [am EXCEPT !.MigratedAccountStates = Empty, !.CurModifiedMap = Empty,
               !.MigrationReady = FALSE,
               !.unhandledStateMsg = {m \in @ : m.Epoch # am.Epoch}]

(* CollectStatesByMsg: a message of an older epoch is an error, one of a    *)
(* newer epoch is kept, one of this epoch is stored whether or not the      *)
(* migration of the epoch is over.                                          *)
CollectStatesByMsg(am, msg) ==
    IF msg.Epoch < am.Epoch THEN am
    ELSE IF msg.Epoch > am.Epoch THEN [am EXCEPT !.unhandledStateMsg = @ \cup {msg}]
    ELSE [am EXCEPT !.MigratedAccountStates = (msg.SrcShard :> msg.AccountStates) @@ @]

(* UpdateByRepartitionStartMsg.  The messages kept for the epoch come from  *)
(* different shards: a shard sends its accounts once in an epoch.           *)
UpdateByRepartitionStartMsg(am, cr) ==
    IF cr.Epoch # am.Epoch + 1 THEN am
    ELSE LET kept == {m \in am.unhandledStateMsg : m.Epoch = cr.Epoch}
             From(src) == (CHOOSE m \in kept : m.SrcShard = src).AccountStates
         IN  [am EXCEPT !.Epoch = cr.Epoch, !.CurModifiedMap = cr.ModifiedMap,
                        !.MigrationReady = TRUE,
                        !.MigratedAccountStates =
                            [src \in {m.SrcShard : m \in kept} |-> From(src)] @@ @,
                        !.unhandledStateMsg = @ \ kept]

AllCollected(am, shards) == Cardinality(DOMAIN am.MigratedAccountStates) = Cardinality(shards)

(* GetMigratedAddrStates: the balances with which the accounts can arrive.  *)
(* An account that two messages hold arrives with either, one that none     *)
(* holds with the initial balance.                                          *)
Candidates(am, acc, initial) ==
    LET states == am.MigratedAccountStates
        sources == {src \in DOMAIN states : acc \in DOMAIN states[src]}
    IN  IF sources = {} THEN {initial} ELSE {states[src][acc] : src \in sources}

GetMigratedAddrStates(am, initial) ==
    {f \in [DOMAIN am.CurModifiedMap ->
                UNION {Candidates(am, acc, initial) : acc \in DOMAIN am.CurModifiedMap}] :
        \A acc \in DOMAIN am.CurModifiedMap : f[acc] \in Candidates(am, acc, initial)}
=============================================================================
