-------------------------- MODULE RegistryContract --------------------------
(***************************************************************************)
(* The validator registry (smart-contracts/src/Registry.sol).  The state   *)
(* of the contract is one record, so that a revert can restore it.         *)
(*                                                                         *)
(* A call runs to its end in one step, with one exception:                 *)
(* withdrawAllStake pays the validator by calling its address before it    *)
(* removes the validator.  Until that call returns, the code at the        *)
(* address may call the registry again, itself or through other accounts,  *)
(* so the calls in progress form a stack.                                  *)
(***************************************************************************)
EXTENDS Integers, Sequences, FiniteSets, Functions

CONSTANTS
    Addresses,     \* accounts
    Keys,          \* BLS public keys an account may register, as bytes
    NoAddress,     \* address(0), the default of a mapping
    NoKey,         \* empty bytes, the default of a mapping
    MinimumStake,  \* constructor argument
    MaxStake,      \* bound: the largest stake or deposit of one call
    MaxIndex,      \* bound: how many registrations there are
    MaxDepth       \* bound: withdrawals in progress at once

ASSUME AddressAssumption == NoAddress \notin Addresses /\ IsFiniteSet(Addresses)
ASSUME StakeAssumption == MinimumStake \in Nat /\ MaxStake \in Nat
ASSUME BoundAssumption == MaxIndex \in Nat /\ MaxDepth \in Nat

VARIABLES
    reg,       \* storage and balance of the contract
    stack,     \* withdrawals in progress: who is paid, and the state to
               \* restore if the withdrawal reverts
    seen,      \* what a reader of the chain remembers of indexToPubKey
    contested  \* history: keys registered while another validator had them

contractVars == <<reg, stack, seen, contested>>

-----------------------------------------------------------------------------
Bytes == Keys \cup {NoKey}
Slots == 0 .. MaxIndex - 1

(* struct Validator; the default value is the one that does not exist.     *)
NoValidator == [exists |-> FALSE, index |-> 0, key |-> NoKey, stake |-> 0]

EmptyRegistry ==
    [validators |-> [a \in Addresses |-> NoValidator],
     indexToPubKey |-> [i \in Slots |-> NoKey],
     blsPubKeyToValidator |-> [k \in Bytes |-> NoAddress],
     validatorAddresses |-> <<>>,
     validatorCount |-> 0,
     balance |-> 0]

Live(s) == {a \in Addresses : s.validators[a].exists}
KeysHeld(s) == {s.validators[a].key : a \in Live(s)}

(* registerValidator, once its requirements hold.                          *)
Registered(s, a, k, stake) ==
    [s EXCEPT
        !.validators[a] = [exists |-> TRUE, index |-> s.validatorCount,
                           key |-> k, stake |-> stake],
        !.indexToPubKey[s.validatorCount] = k,
        !.blsPubKeyToValidator[k] = a,
        !.validatorAddresses = Append(@, a),
        !.validatorCount = @ + 1,
        !.balance = @ + stake]

(* depositStake                                                            *)
Deposited(s, a, amount) ==
    [s EXCEPT !.validators[a].stake = @ + amount, !.balance = @ + amount]

(* Mutant: the stake is not zeroed before the payment.                     *)
PaidUnzeroed(s, a) == [s EXCEPT !.balance = @ - s.validators[a].stake]

(* withdrawAllStake, up to and with the payment.                           *)
Paid(s, a) ==
    [s EXCEPT !.validators[a].stake = 0, !.balance = @ - s.validators[a].stake]

(* Mutant: the last address is dropped without being moved.                *)
SwapPopNoMove(addresses, a) == SubSeq(addresses, 1, Len(addresses) - 1)

(* The first occurrence of a is overwritten by the last address, and the   *)
(* last one dropped.                                                       *)
SwapPop(addresses, a) ==
    LET last == Len(addresses)
        here == {i \in DOMAIN addresses : addresses[i] = a}
    IN  IF here = {}
        THEN addresses
        ELSE LET i == CHOOSE i \in here : \A j \in here : i <= j
             IN  SubSeq([addresses EXCEPT ![i] = addresses[last]], 1, last - 1)

(* Mutant: the owner of the key is not deleted.                            *)
RemovedKeepsOwner(s, a) ==
    [s EXCEPT !.validators[a] = NoValidator,
              !.indexToPubKey[s.validators[a].index] = NoKey,
              !.validatorAddresses = SwapPop(@, a)]

(* Mutant: the index is freed for the next registration.                   *)
RemovedFreesIndex(s, a) ==
    [s EXCEPT !.validators[a] = NoValidator,
              !.indexToPubKey[s.validators[a].index] = NoKey,
              !.blsPubKeyToValidator[s.validators[a].key] = NoAddress,
              !.validatorAddresses = SwapPop(@, a),
              !.validatorCount = @ - 1]

(* removeValidator                                                         *)
Removed(s, a) ==
    [s EXCEPT !.validators[a] = NoValidator,
              !.indexToPubKey[s.validators[a].index] = NoKey,
              !.blsPubKeyToValidator[s.validators[a].key] = NoAddress,
              !.validatorAddresses = SwapPop(@, a)]

(* getValidatorByIndex: the account of the validator returned, NoAddress   *)
(* if the call reverts.                                                    *)
GetValidatorByIndex(s, i) ==
    LET a == s.blsPubKeyToValidator[s.indexToPubKey[i]]
    IN  IF a \in Live(s) THEN a ELSE NoAddress

-----------------------------------------------------------------------------
ContractInit ==
    /\ reg = EmptyRegistry
    /\ stack = <<>>
    /\ seen = [i \in Slots |-> NoKey]
    /\ contested = {}

RegisterValidator(a, k, stake) ==
    /\ reg.validatorCount < MaxIndex
    /\ a \notin Live(reg)
    /\ stake >= MinimumStake
    /\ reg' = Registered(reg, a, k, stake)
    /\ contested' = contested \cup (IF k \in KeysHeld(reg) THEN {k} ELSE {})
    /\ UNCHANGED <<stack, seen>>

DepositStake(a, amount) ==
    /\ a \in Live(reg)
    /\ reg.validators[a].stake + amount <= MaxStake
    /\ reg' = Deposited(reg, a, amount)
    /\ UNCHANGED <<stack, seen, contested>>

(* withdrawAllStake, up to the call of the validator's address.            *)
WithdrawAllStake(a) ==
    /\ Len(stack) < MaxDepth
    /\ a \in Live(reg)
    /\ reg' = Paid(reg, a)
    /\ stack' = Append(stack, [who |-> a, saved |-> reg])
    /\ UNCHANGED <<seen, contested>>

(* The payment was accepted: the validator is removed.  If it no longer    *)
(* exists, the requirement of removeValidator reverts the withdrawal.      *)
PaymentReturns ==
    /\ stack # <<>>
    /\ LET frame == stack[Len(stack)]
       IN  reg' = IF frame.who \in Live(reg) THEN Removed(reg, frame.who)
                                             ELSE frame.saved
    /\ stack' = SubSeq(stack, 1, Len(stack) - 1)
    /\ UNCHANGED <<seen, contested>>

(* The payment was refused: "Withdrawal failed" reverts the withdrawal and *)
(* all that was called in it.                                              *)
PaymentFails ==
    /\ stack # <<>>
    /\ reg' = stack[Len(stack)].saved
    /\ stack' = SubSeq(stack, 1, Len(stack) - 1)
    /\ UNCHANGED <<seen, contested>>

(* getPubKeyByIndex: a reader asks between transactions, and remembers the *)
(* key.                                                                    *)
GetPubKeyByIndex(i) ==
    /\ stack = <<>>
    /\ reg.indexToPubKey[i] # NoKey
    /\ seen' = [seen EXCEPT ![i] = reg.indexToPubKey[i]]
    /\ UNCHANGED <<reg, stack, contested>>

ContractNext ==
    \/ \E a \in Addresses, k \in Keys, stake \in 0 .. MaxStake :
          RegisterValidator(a, k, stake)
    \/ \E a \in Addresses, amount \in 0 .. MaxStake : DepositStake(a, amount)
    \/ \E a \in Addresses : WithdrawAllStake(a)
    \/ PaymentReturns
    \/ PaymentFails
    \/ \E i \in Slots : GetPubKeyByIndex(i)

ContractSpec == ContractInit /\ [][ContractNext]_contractVars

-----------------------------------------------------------------------------
Registries ==
    [validators : [Addresses -> [exists : BOOLEAN, index : Nat, key : Bytes,
                                 stake : Nat]],
     indexToPubKey : [Slots -> Bytes],
     blsPubKeyToValidator : [Bytes -> Addresses \cup {NoAddress}],
     validatorAddresses : Seq(Addresses),
     validatorCount : 0 .. MaxIndex,
     balance : Nat]

(* The state of the contract has its types, in and between calls.          *)
RegistryTypeOK ==
    /\ reg \in Registries
    /\ stack \in Seq([who : Addresses, saved : Registries])
    /\ seen \in [Slots -> Bytes]
    /\ contested \subseteq Keys

(* The contract can pay every withdrawal: it holds at least the sum of the *)
(* stakes, also while withdrawAllStake waits for the address it pays and   *)
(* whatever that address calls or reverts meanwhile.                       *)
Solvent ==
    SumFunction([a \in Addresses |-> reg.validators[a].stake]) <= reg.balance

(* validatorAddresses, which getAllValidatorSockets walks, names each      *)
(* registered validator exactly once, however registrations and (nested)   *)
(* removals by swap and pop follow each other.                             *)
AddressesExact ==
    /\ Range(reg.validatorAddresses) = Live(reg)
    /\ Len(reg.validatorAddresses) = Cardinality(Live(reg))

(* The three mappings agree.  A key leads only to a registered validator   *)
(* with that key; every validator is the only one with its index, and the  *)
(* index leads to its key.  As long as a key was never registered beside a *)
(* validator that had it, the way back is closed too: the index of its     *)
(* validator leads to that validator, and an index that leads to the key   *)
(* leads to the validator with that index, through nested removals,        *)
(* returns and reverts.  (A key registered twice leads to its last owner,  *)
(* and to nobody once either has left.)                                    *)
LookupSound ==
    /\ \A k \in Bytes :
          LET a == reg.blsPubKeyToValidator[k]
          IN  a # NoAddress => a \in Live(reg) /\ reg.validators[a].key = k
    /\ \A a \in Live(reg) :
          LET v == reg.validators[a]
          IN  /\ v.index < reg.validatorCount
              /\ reg.indexToPubKey[v.index] = v.key
              /\ \A b \in Live(reg) : reg.validators[b].index = v.index => b = a
              /\ v.key \notin contested => GetValidatorByIndex(reg, v.index) = a
    /\ \A i \in Slots :
          reg.indexToPubKey[i] \notin contested \cup {NoKey} =>
              LET a == GetValidatorByIndex(reg, i)
              IN  a # NoAddress /\ reg.validators[a].index = i

(* A key read under an index stays right: as long as the registry knows    *)
(* the index at all, it leads to the key it led to when it was read,       *)
(* however validators leave, return and revert.  validatorCount never goes *)
(* back between transactions, so indexes are not given out again.          *)
IndexNeverReassigned ==
    stack = <<>> =>
        \A i \in Slots :
            seen[i] # NoKey => reg.indexToPubKey[i] \in {seen[i], NoKey}
=============================================================================
