--------------------------- MODULE AccessControl ---------------------------
(***************************************************************************)
(* The broker's in-memory store of grants and public keys, and the calls   *)
(* of its API that change it. Each is one hold of the store's lock. E-mail *)
(* addresses and host names may be spelled in several ways.                *)
(***************************************************************************)
EXTENDS Naturals

CONSTANTS Emails,    \* as requests spell them
          Hosts,
          Lower,     \* strings.ToLower
          Keys,      \* public keys; a key is its fingerprint, too
          MaxGrants  \* bound: grants made

ASSUME LowerAssumption ==
    /\ Lower \in [Emails \cup Hosts -> Emails \cup Hosts]
    /\ \A e \in Emails : Lower[e] \in Emails /\ Lower[Lower[e]] = Lower[e]
    /\ \A h \in Hosts : Lower[h] \in Hosts /\ Lower[Lower[h]] = Lower[h]

ASSUME MaxGrantsAssumption == MaxGrants \in Nat

VARIABLES grants,     \* the grant of each grantKey, 0 for none: grants are numbered
          granted,    \* grants made so far; its address, user and secret go by the number
          publicKeys  \* of each normalized address

storeVars == <<grants, granted, publicKeys>>

Grant == Emails \X Hosts

(* grantKey *)
Normalized(e, h) == <<Lower[e], Lower[h]>>

StoreInit ==
    /\ grants = [g \in Grant |-> 0]
    /\ granted = 0
    /\ publicKeys = [e \in Emails |-> {}]

(* A request that lacks a field changes nothing and is no step. *)
GrantAccess(e, h) ==
    /\ granted < MaxGrants
    /\ granted' = granted + 1
    /\ grants' = [grants EXCEPT ![Normalized(e, h)] = granted + 1]
    /\ UNCHANGED publicKeys

RevokeAccess(e, h) ==
    /\ grants' = [grants EXCEPT ![Normalized(e, h)] = 0]
    /\ UNCHANGED <<granted, publicKeys>>

FindGrant(e, h) == grants[Normalized(e, h)]
HasAccess(e, h) == FindGrant(e, h) # 0

(* Adding a key again changes nothing. *)
AddPublicKey(e, k) ==
    /\ publicKeys' = [publicKeys EXCEPT ![Lower[e]] = @ \cup {k}]
    /\ UNCHANGED <<grants, granted>>

(* Another fingerprint is not found. *)
RemovePublicKey(e, k) ==
    /\ k \in publicKeys[Lower[e]]
    /\ publicKeys' = [publicKeys EXCEPT ![Lower[e]] = @ \ {k}]
    /\ UNCHANGED <<grants, granted>>

GetPublicKeys(e) == publicKeys[Lower[e]]

(* The broker goes down: nothing of the store was on disk. *)
StoreLost ==
    /\ grants' = [g \in Grant |-> 0]
    /\ publicKeys' = [e \in Emails |-> {}]
    /\ UNCHANGED granted

StoreTypeOK ==
    /\ granted \in 0 .. MaxGrants
    /\ grants \in [Grant -> 0 .. granted]
    /\ \A g \in Grant : grants[g] # 0 => g = <<Lower[g[1]], Lower[g[2]]>>
    /\ publicKeys \in [Emails -> SUBSET Keys]
=============================================================================
