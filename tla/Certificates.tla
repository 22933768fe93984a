---------------------------- MODULE Certificates ----------------------------
(***************************************************************************)
(* The TLS certificate of the proxies and its private key: two files that  *)
(* the broker makes, one after the other, when one of them is not there.   *)
(* They survive the broker. Generate may stop after any of its steps, by   *)
(* an error or because the broker dies.                                    *)
(***************************************************************************)
EXTENDS Naturals

VARIABLES cert,    \* server.crt
          key,     \* server.key
          pair,    \* key pairs made so far
          making   \* where EnsureCertificates is

certVars == <<cert, key, pair, making>>

(* A file that is there holds (half of) a pair, or nothing yet. *)
File    == [exists : BOOLEAN, of : Nat]
NoFile  == [exists |-> FALSE, of |-> 0]
Created == [exists |-> TRUE, of |-> 0]
Half(p) == [exists |-> TRUE, of |-> p]

CertInit ==
    /\ cert = NoFile /\ key = NoFile
    /\ pair = 0
    /\ making = "no"

(* Mutant: a certificate alone is enough. *)
CertificateExists == cert.exists
BothExist == cert.exists /\ key.exists

(* EnsureCertificates and the start of Generate. *)
Ensure ==
    /\ making = "no"
    /\ IF BothExist
       THEN making' = "done" /\ UNCHANGED pair
       ELSE making' = "generated" /\ pair' = pair + 1
    /\ UNCHANGED <<cert, key>>

CreateCert ==
    /\ making = "generated"
    /\ cert' = Created
    /\ making' = "cert created"
    /\ UNCHANGED <<key, pair>>

WriteCert ==
    /\ making = "cert created"
    /\ cert' = Half(pair)
    /\ making' = "cert written"
    /\ UNCHANGED <<key, pair>>

CreateKey ==
    /\ making = "cert written"
    /\ key' = Created
    /\ making' = "key created"
    /\ UNCHANGED <<cert, pair>>

WriteKey ==
    /\ making = "key created"
    /\ key' = Half(pair)
    /\ making' = "done"
    /\ UNCHANGED <<cert, pair>>

Generate == CreateCert \/ WriteCert \/ CreateKey \/ WriteKey

(* The broker goes down, also when a step of Generate fails. *)
GenerateEnds ==
    /\ making' = "no"
    /\ UNCHANGED <<cert, key, pair>>

CertTypeOK ==
    /\ cert \in File /\ key \in File
    /\ pair \in Nat
    /\ making \in {"no", "generated", "cert created", "cert written", "key created", "done"}
=============================================================================
