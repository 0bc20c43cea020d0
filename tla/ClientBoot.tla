----------------------------- MODULE ClientBoot -----------------------------
(***************************************************************************)
(* A client starts from the registry contract (bin/client.rs): it asks for *)
(* the number of validators and then for each index in turn                *)
(* (registry/contract.rs), and connects to the validators it got           *)
(* (connect_validator, client.rs).  Each request is answered from the      *)
(* chain of its moment, between transactions, while validators come and go.*)
(***************************************************************************)
EXTENDS RegistryContract

CONSTANT ParsableKeys   \* the keys that BlsPublicKey::from_bytes accepts

VARIABLES
    phase,       \* "count", "scan", "connect", "ready" or "aborted"
    count,       \* getValidatorCount's answer
    next,        \* the next index to ask for
    infos,       \* the validators got and not yet connected to
    validators,  \* Client::validators: index -> public key
    steady,      \* history: <<index, key>> of the validators that have been
                 \* registered and reachable since count was read
    missed       \* history: a request for an index was not answered

boot == <<phase, count, next, infos, validators>>
vars == <<reg, stack, seen, contested, phase, count, next, infos, validators, steady, missed>>

-----------------------------------------------------------------------------
(* A call is dispatched by its function's name and parameter types.        *)
ContractFunctions == {<<"getValidatorCount">>, <<"getValidatorByIndex", "uint256">>}

(* The interface the client is compiled with.                              *)
CountFunction == <<"getValidatorCount">>
ByIndexFunction == <<"getValidatorByIndex", "uint64">>

(* The registered validators that their key leads to.  (A key can be       *)
(* registered twice; it leads to the account that registered it last, and  *)
(* to none once one of them has left.)                                     *)
Reachable(s) ==
    {a \in Live(s) : s.blsPubKeyToValidator[s.validators[a].key] = a}

Identity(s, a) == <<s.validators[a].index, s.validators[a].key>>
Identities(s) == {Identity(s, a) : a \in Reachable(s)}

Init ==
    /\ ContractInit
    /\ phase = "count"
    /\ count = 0
    /\ next = 0
    /\ infos = <<>>
    /\ validators = [i \in {} |-> NoKey]
    /\ steady = {}
    /\ missed = FALSE

(* A transaction, or a part of one, changes the contract.                  *)
ContractStep ==
    /\ ContractNext
    /\ steady' = IF stack' = <<>> THEN steady \cap Identities(reg') ELSE steady
    /\ UNCHANGED <<boot, missed>>

-----------------------------------------------------------------------------
(* get_validator_count                                                     *)
GetValidatorCount ==
    /\ phase = "count"
    /\ stack = <<>>
    /\ CountFunction \in ContractFunctions
    /\ phase' = "scan"
    /\ count' = reg.validatorCount
    /\ steady' = Identities(reg)
    /\ UNCHANGED <<contractVars, next, infos, validators, missed>>

(* get_validator_by_index: the account answered with, or NoAddress if the  *)
(* call reverts or the key does not parse.                                 *)
Answer(i) ==
    LET a == GetValidatorByIndex(reg, i)
    IN  IF /\ ByIndexFunction \in ContractFunctions
           /\ a # NoAddress
           /\ reg.validators[a].key \in ParsableKeys
        THEN a
        ELSE NoAddress

(* One index of get_all_validators' loop: an error is passed over.         *)
ScanIndex ==
    /\ phase = "scan"
    /\ stack = <<>>
    /\ next < count
    /\ next' = next + 1
    /\ LET a == Answer(next)
       IN  infos' = IF a = NoAddress THEN infos ELSE Append(infos, Identity(reg, a))
    /\ UNCHANGED <<contractVars, phase, count, validators, steady, missed>>

(* A request that is not answered is passed over, too.                     *)
ScanFails ==
    /\ phase = "scan"
    /\ next < count
    /\ next' = next + 1
    /\ missed' = TRUE
    /\ UNCHANGED <<contractVars, phase, count, infos, validators, steady>>

(* get_all_validators returns, and main goes on with what it got.          *)
ScanEnds ==
    /\ phase = "scan"
    /\ next = count
    /\ phase' = "connect"
    /\ UNCHANGED <<contractVars, count, next, infos, validators, steady, missed>>

(* connect_validator, for the next validator of main's loop.               *)
ConnectValidator ==
    /\ phase = "connect"
    /\ infos # <<>>
    /\ LET info == Head(infos)
       IN  validators' = [i \in DOMAIN validators \cup {info[1]} |->
                             IF i = info[1] THEN info[2] ELSE validators[i]]
    /\ infos' = Tail(infos)
    /\ UNCHANGED <<contractVars, phase, count, next, steady, missed>>

(* All connected: main serves the API.                                     *)
Serve ==
    /\ phase = "connect"
    /\ infos = <<>>
    /\ phase' = "ready"
    /\ UNCHANGED <<contractVars, count, next, infos, validators, steady, missed>>

(* The count cannot be read, or a validator not be connected to: main ends.*)
Abort ==
    /\ phase = "count" \/ (phase = "connect" /\ infos # <<>>)
    /\ phase' = "aborted"
    /\ UNCHANGED <<contractVars, count, next, infos, validators, steady, missed>>

Next ==
    \/ ContractStep
    \/ GetValidatorCount
    \/ ScanIndex
    \/ ScanFails
    \/ ScanEnds
    \/ ConnectValidator
    \/ Serve
    \/ Abort

Spec == Init /\ [][Next]_vars

-----------------------------------------------------------------------------
(* registry/mod.rs, on Registry::all_validators: "Returns a list of all    *)
(* validators in the network."  So a client that starts without an         *)
(* unanswered request knows at least every validator that was registered,  *)
(* and that its key, which parses, led to, since the count was read.       *)
AllValidatorsListed ==
    phase = "ready" /\ ~missed =>
        \A id \in steady :
            id[2] \in ParsableKeys =>
                id[1] \in DOMAIN validators /\ validators[id[1]] = id[2]
=============================================================================
