---------------------------- MODULE BrokerProofs ----------------------------
(***************************************************************************)
(* The invariants of Broker, for any number of requests, revocations,      *)
(* addresses, hosts, grants and starts, however names are spelled.         *)
(***************************************************************************)
EXTENDS Broker, TLAPS

(* Whom a session is being ended by, and what may run. *)
OwnersAgree ==
    /\ \A r \in Requests : pc[r] = "terminating" => killer[r] # "nobody"
    /\ \A r \in Requests : pc[r] = "terminating" /\ killer[r] \in Revocations => call[killer[r]] = "ending"
    /\ \A r \in Requests : pc[r] = "terminating" /\ killer[r] = "shutdown" => r \in draining
    /\ \A r \in running : pc[r] \in {"started", "active", "terminating", "lost"}

(* What Shutdown has to end, and what it came too late for. *)
ShutdownAgrees ==
    /\ draining # {} => Shutdown
    /\ \A r \in draining : pc[r] \in {"active", "terminating", "over"}
    /\ Shutdown => \A r \in Requests : pc[r] \in SettingUp => r \in late
    /\ Shutdown => \A r \in Requests : pc[r] = "active" => r \in draining \cup late
    /\ phase = "closing" => Drained \/ expired

(* After a revocation the grant is gone or a newer one, and when the sessions were listed *)
(* every session of the old one was listed, or missed.                                    *)
RevocationAgrees ==
    /\ \A v \in Revocations :
          call[v] \in {"revoked", "ending", "returned"} =>
              \/ FindGrant(Whose[v][1], Whose[v][2]) = 0
              \/ FindGrant(Whose[v][1], Whose[v][2]) > asOf[v]
    /\ \A v \in Revocations, r \in Requests :
          call[v] \in {"ending", "returned"} /\ Covers(v, r) =>
              /\ pc[r] \in SettingUp \cup {"found"} => r \in missed[v]
              /\ pc[r] = "active" => r \in missed[v] \cup listed[v]
    /\ \A v \in Revocations : call[v] = "returned" => listed[v] = {}

(* How far Generate has come is what the files say: there is never a key without a certificate. *)
CertInv ==
    /\ cert = NoFile \/ cert.exists
    /\ key = NoFile \/ key.exists
    /\ key.exists => cert.exists
    /\ making \in {"generated", "cert created", "cert written"} => key = NoFile
    /\ making \in {"generated", "cert created", "cert written", "key created"} => pair > 0
    /\ making \in {"cert written", "key created"} => cert = Half(pair)
    /\ making = "key created" => key = Created
    /\ making = "done" => key.exists
    /\ key # NoFile /\ key # Created => cert = key
    /\ phase \notin {"stopped", "starting", "crashed"} => making = "done"

IndInv ==
    /\ TypeOK
    /\ OwnersAgree
    /\ ShutdownAgrees
    /\ RevocationAgrees
    /\ CertInv
    /\ CredentialsOffDisk

-----------------------------------------------------------------------------
LEMMA Names ==
  /\ \A e \in Emails, h \in Hosts : Normalized(e, h) \in Grant
  /\ \A r \in Requests : Who[r][1] \in Emails /\ Who[r][2] \in Hosts
  /\ \A v \in Revocations : Whose[v][1] \in Emails /\ Whose[v][2] \in Hosts
BY LowerAssumption, BrokerAssumption DEF Normalized, Grant

LEMMA Files ==
  /\ ~NoFile.exists /\ Created.exists
  /\ \A p : Half(p).exists
  /\ \A p \in Nat : p > 0 => Half(p) # Created
<1>1. NoFile.exists = FALSE /\ Created.exists = TRUE /\ Created.of = 0
  BY DEF NoFile, Created
<1>2. \A p : Half(p).exists = TRUE /\ Half(p).of = p
  BY DEF Half
<1>3. \A p \in Nat : p > 0 => Half(p) # Created
  BY <1>1, <1>2
<1>4. QED
  BY <1>1, <1>2, <1>3

(* A step keeps every variable in its set. A grant counts one up and stays within MaxGrants. *)
LEMMA TypesStay ==
  ASSUME IndInv, [Next]_vars
  PROVE  TypeOK'
<1> USE DEF storeVars, certVars, mainVars, requestVars, callVars, TypeOK, StoreTypeOK, CertTypeOK,
           SettingUp, Handled
<1>0. TypeOK
  BY DEF IndInv
<1>0a. /\ MaxStarts \in Nat /\ MaxGrants \in Nat /\ granted \in Nat /\ starts \in Nat
       /\ 0 \in 0 .. granted
  <2>1. MaxStarts \in Nat /\ MaxGrants \in Nat
    BY BrokerAssumption, MaxGrantsAssumption
  <2>2. granted \in 0 .. MaxGrants /\ starts \in 0 .. MaxStarts
    BY <1>0
  <2>3. QED
    BY <2>1, <2>2
<1>1. ASSUME NEW r \in Requests, Verify(r) PROVE TypeOK'
  BY <1>1, <1>0, <1>0a DEF Verify, Goes
<1>2. ASSUME NEW r \in Requests, FindsGrant(r) PROVE TypeOK'
  BY <1>2, <1>0, <1>0a, Names DEF FindsGrant, Goes, FindGrant
<1>3. ASSUME NEW r \in Requests, Admit(r) PROVE TypeOK'
  BY <1>3, <1>0, <1>0a DEF Admit, Goes
<1>4. ASSUME NEW r \in Requests, StartProxy(r) PROVE TypeOK'
  BY <1>4, <1>0, <1>0a DEF StartProxy, Goes
<1>5. ASSUME NEW r \in Requests, Register(r) PROVE TypeOK'
  BY <1>5, <1>0, <1>0a DEF Register, Goes
<1>6. ASSUME NEW r \in Requests, Refuse(r) PROVE TypeOK'
  BY <1>6, <1>0, <1>0a DEF Refuse, Ends
<1>7. ASSUME NEW r \in Requests, WriteConfigFails(r) PROVE TypeOK'
  BY <1>7, <1>0, <1>0a DEF WriteConfigFails
<1>8. ASSUME NEW r \in Requests, OtherTerminates(r) PROVE TypeOK'
  BY <1>8, <1>0, <1>0a DEF OtherTerminates, Marks
<1>9. ASSUME NEW r \in Requests, DrainTerminates(r) PROVE TypeOK'
  BY <1>9, <1>0, <1>0a DEF DrainTerminates, Marks
<1>10. ASSUME NEW r \in Requests, Terminated(r) PROVE TypeOK'
  BY <1>10, <1>0, <1>0a DEF Terminated, Ends
<1>11. ASSUME NEW r \in Requests, ProxyExits(r) PROVE TypeOK'
  BY <1>11, <1>0, <1>0a DEF ProxyExits, Marks
<1>12. ASSUME NEW v \in Revocations, RevokeChecks(v) PROVE TypeOK'
  BY <1>12, <1>0, <1>0a DEF RevokeChecks, CallGoes
<1>13. ASSUME NEW v \in Revocations, Revokes(v) PROVE TypeOK'
  <2>1. grants' = [grants EXCEPT ![Normalized(Whose[v][1], Whose[v][2])] = 0]
    BY <1>13 DEF Revokes, RevokeAccess
  <2>2. Normalized(Whose[v][1], Whose[v][2]) \in Grant
    BY Names
  <2>3. StoreTypeOK'
    BY <1>0, <1>0a, <1>13, <2>1, <2>2 DEF Revokes, RevokeAccess
  <2>4. asOf' \in [Revocations -> 0 .. granted]
    <3>1. asOf' = [asOf EXCEPT ![v] = granted]
      BY <1>13 DEF Revokes
    <3>2. granted \in 0 .. granted
      BY <1>0a
    <3>3. QED
      BY <1>0, <3>1, <3>2
  <2>5. QED
    BY <1>0, <1>13, <2>3, <2>4 DEF Revokes, RevokeAccess, CallGoes
<1>14. ASSUME NEW v \in Revocations, ListSessions(v) PROVE TypeOK'
  BY <1>14, <1>0, <1>0a DEF ListSessions, CallGoes
<1>15. ASSUME NEW v \in Revocations, RevokeTerminates(v) PROVE TypeOK'
  <2>1. PICK r \in listed[v] :
           /\ listed' = [listed EXCEPT ![v] = @ \ {r}]
           /\ Marks(r, v) \/ UNCHANGED <<pc, killer>>
    BY <1>0, <1>0a, <1>15 DEF RevokeTerminates
  <2>2. r \in Requests /\ listed' \in [Revocations -> SUBSET Requests]
    BY <1>0, <2>1
  <2>3. /\ pc' \in [Requests -> Handled \cup {"idle", "active", "terminating", "over", "lost"}]
        /\ killer' \in [Requests -> {"nobody", "api", "monitor", "shutdown"} \cup Revocations]
    <3>1. CASE Marks(r, v)
      BY <1>0, <2>2, <3>1 DEF Marks
    <3>2. CASE UNCHANGED <<pc, killer>>
      BY <1>0, <3>2
    <3>3. QED
      BY <2>1, <3>1, <3>2
  <2>4. QED
    BY <1>0, <1>0a, <1>15, <2>2, <2>3 DEF RevokeTerminates
<1>16. ASSUME NEW v \in Revocations, RevokeReturns(v) PROVE TypeOK'
  BY <1>16, <1>0, <1>0a DEF RevokeReturns, CallGoes
<1>17. ASSUME NEW e \in Emails, NEW h \in Hosts, Grants(e, h) PROVE TypeOK'
  <2>1. /\ granted \in Nat /\ granted' = granted + 1 /\ granted' \in 0 .. MaxGrants
        /\ \A n \in 0 .. granted : n \in 0 .. granted'
    <3>1. granted < MaxGrants /\ granted' = granted + 1
      BY <1>17 DEF Grants, GrantAccess
    <3>2. QED
      BY <1>0a, <3>1
  <2>2. grants' = [grants EXCEPT ![Normalized(e, h)] = granted'] /\ Normalized(e, h) \in Grant
    BY <1>0, <1>0a, <1>17, <2>1, Names DEF Grants, GrantAccess
  <2>3. grants' \in [Grant -> 0 .. granted']
    <3>1. grants \in [Grant -> 0 .. granted]
      BY <1>0
    <3>2. grants \in [Grant -> 0 .. granted'] /\ granted' \in 0 .. granted'
      BY <1>0a, <2>1, <3>1
    <3>3. QED
      BY <2>2, <3>2
  <2>4. \A g \in Grant : grants'[g] # 0 => g = <<Lower[g[1]], Lower[g[2]]>>
    <3>1. Normalized(e, h) = <<Lower[Normalized(e, h)[1]], Lower[Normalized(e, h)[2]]>>
      BY LowerAssumption DEF Normalized
    <3>2. QED
      BY <1>0, <2>2, <3>1
  <2>5. publicKeys' \in [Emails -> SUBSET Keys]
    BY <1>0, <1>0a, <1>17 DEF Grants, GrantAccess
  <2>6. from' \in [Requests -> 0 .. granted'] /\ asOf' \in [Revocations -> 0 .. granted']
    BY <1>0, <1>0a, <1>17, <2>1 DEF Grants
  <2>7. QED
    BY <1>0, <1>0a, <1>17, <2>1, <2>3, <2>4, <2>5, <2>6 DEF Grants
<1>18. ASSUME NEW e \in Emails, NEW k \in Keys, ChangesKeys(e, k) PROVE TypeOK'
  <2>1. publicKeys' \in [Emails -> SUBSET Keys] /\ UNCHANGED <<grants, granted>>
    <3>1. CASE AddPublicKey(e, k)
      BY <1>0, <3>1, LowerAssumption DEF AddPublicKey
    <3>2. CASE RemovePublicKey(e, k)
      BY <1>0, <3>2, LowerAssumption DEF RemovePublicKey
    <3>3. QED
      BY <1>18, <3>1, <3>2 DEF ChangesKeys
  <2>2. QED
    BY <1>0, <1>0a, <1>18, <2>1 DEF ChangesKeys
<1>19. CASE Start
  <2>1. starts' \in 0 .. MaxStarts
    <3>1. starts < MaxStarts /\ starts' = starts + 1
      BY <1>19 DEF Start
    <3>2. QED
      BY <1>0a, <3>1
  <2>2. running' \subseteq Requests
    BY <1>0, <1>19 DEF Start
  <2>3. QED
    BY <1>0, <1>0a, <1>19, <2>1, <2>2 DEF Start
<1>20. CASE EnsureCertificates
  <2>1. CertTypeOK'
    <3>1. NoFile \in File /\ Created \in File /\ \A p \in Nat : Half(p) \in File
      BY DEF NoFile, Created, Half, File
    <3>2. CASE Ensure
      <4>1. pair' \in Nat /\ making' \in {"done", "generated"} /\ cert' = cert /\ key' = key
        BY <1>0, <3>2 DEF Ensure
      <4>2. QED
        BY <1>0, <4>1
    <3>3. CASE CreateCert
      BY <1>0, <3>1, <3>3 DEF CreateCert
    <3>4. CASE WriteCert
      BY <1>0, <3>1, <3>4 DEF WriteCert
    <3>5. CASE CreateKey
      BY <1>0, <3>1, <3>5 DEF CreateKey
    <3>6. CASE WriteKey
      BY <1>0, <3>1, <3>6 DEF WriteKey
    <3>7. QED
      BY <1>0, <1>0a, <1>20, <3>2, <3>3, <3>4, <3>5, <3>6 DEF EnsureCertificates, Generate
  <2>2. QED
    BY <1>0, <1>0a, <1>20, <2>1 DEF EnsureCertificates
<1>21. CASE ListenAndServe
  BY <1>21, <1>0, <1>0a DEF ListenAndServe
<1>22. CASE ShutdownBegins
  BY <1>22, <1>0, <1>0a DEF ShutdownBegins
<1>23. CASE ServerShutdown
  BY <1>23, <1>0, <1>0a DEF ServerShutdown
<1>24. CASE Deadline
  BY <1>24, <1>0, <1>0a DEF Deadline
<1>25. ASSUME NEW how \in {"stopped", "crashed"}, GoesDown(how) PROVE TypeOK'
  <2>1. /\ grants' \in [Grant -> 0 .. granted'] /\ granted' = granted
        /\ \A g \in Grant : grants'[g] = 0
        /\ publicKeys' \in [Emails -> SUBSET Keys]
    BY <1>0, <1>0a, <1>25 DEF GoesDown, StoreLost
  <2>2. /\ pc' \in [Requests -> {"idle", "lost"}]
        /\ call' \in [Revocations -> {"idle", "over"}]
        /\ from' \in [Requests -> 0 .. granted] /\ asOf' \in [Revocations -> 0 .. granted]
    BY <1>0, <1>0a, <1>25 DEF GoesDown
  <2>3. /\ killer' \in [Requests -> {"nobody"}]
        /\ listed' \in [Revocations -> SUBSET Requests]
        /\ missed' \in [Revocations -> SUBSET Requests]
        /\ draining' = {} /\ late' = {} /\ cut' \subseteq Requests
    BY <1>0, <1>0a, <1>25 DEF GoesDown
  <2>4. CertTypeOK'
    BY <1>0, <1>0a, <1>25 DEF GoesDown, GenerateEnds
  <2>5. phase' \in {"stopped", "crashed"} /\ expired' = FALSE /\ UNCHANGED <<starts, ini, running>>
    BY <1>0, <1>0a, <1>25 DEF GoesDown
  <2>6. QED
    BY <1>0, <2>1, <2>2, <2>3, <2>4, <2>5
<1>26. CASE UNCHANGED vars
  BY <1>26, <1>0, <1>0a DEF vars
<1> HIDE DEF storeVars, certVars, mainVars, requestVars, callVars, TypeOK, StoreTypeOK, CertTypeOK,
           SettingUp, Handled
<1>27. QED
  BY [Next]_vars, <1>1, <1>2, <1>3, <1>4, <1>5, <1>6, <1>7, <1>8, <1>9, <1>10, <1>11, <1>12, <1>13,
     <1>14, <1>15, <1>16, <1>17, <1>18, <1>19, <1>20, <1>21, <1>22, <1>23, <1>24, <1>25, <1>26
  DEF Next, Main, Exit, Crash, Proceed, Revoke

(* Every step that ends the set-up of a request deletes proxy.ini, or records in cut that it *)
(* did not.                                                                                  *)
LEMMA CredentialsStay ==
  ASSUME IndInv, [Next]_vars
  PROVE  CredentialsOffDisk'
<1> USE DEF storeVars, certVars, mainVars, requestVars, callVars, TypeOK, CredentialsOffDisk, SettingUp,
           Handled
<1>0. TypeOK /\ CredentialsOffDisk
  BY DEF IndInv
<1>1. ASSUME NEW r \in Requests, Verify(r) PROVE CredentialsOffDisk'
  BY <1>1, <1>0 DEF Verify, Goes
<1>2. ASSUME NEW r \in Requests, FindsGrant(r) PROVE CredentialsOffDisk'
  BY <1>2, <1>0 DEF FindsGrant, Goes
<1>3. ASSUME NEW r \in Requests, Admit(r) PROVE CredentialsOffDisk'
  BY <1>3, <1>0 DEF Admit, Goes
<1>4. ASSUME NEW r \in Requests, StartProxy(r) PROVE CredentialsOffDisk'
  BY <1>4, <1>0 DEF StartProxy, Goes
<1>5. ASSUME NEW r \in Requests, Register(r) PROVE CredentialsOffDisk'
  BY <1>5, <1>0 DEF Register, Goes
<1>6. ASSUME NEW r \in Requests, Refuse(r) PROVE CredentialsOffDisk'
  BY <1>6, <1>0 DEF Refuse, Ends
<1>7. ASSUME NEW r \in Requests, WriteConfigFails(r) PROVE CredentialsOffDisk'
  BY <1>7, <1>0 DEF WriteConfigFails
<1>8. ASSUME NEW r \in Requests, OtherTerminates(r) PROVE CredentialsOffDisk'
  BY <1>8, <1>0 DEF OtherTerminates, Marks
<1>9. ASSUME NEW r \in Requests, DrainTerminates(r) PROVE CredentialsOffDisk'
  BY <1>9, <1>0 DEF DrainTerminates, Marks
<1>10. ASSUME NEW r \in Requests, Terminated(r) PROVE CredentialsOffDisk'
  BY <1>10, <1>0 DEF Terminated, Ends
<1>11. ASSUME NEW r \in Requests, ProxyExits(r) PROVE CredentialsOffDisk'
  BY <1>11, <1>0 DEF ProxyExits, Marks
<1>12. ASSUME NEW v \in Revocations, RevokeChecks(v) PROVE CredentialsOffDisk'
  BY <1>12, <1>0 DEF RevokeChecks, CallGoes
<1>13. ASSUME NEW v \in Revocations, Revokes(v) PROVE CredentialsOffDisk'
  BY <1>13, <1>0 DEF Revokes, CallGoes, RevokeAccess
<1>14. ASSUME NEW v \in Revocations, ListSessions(v) PROVE CredentialsOffDisk'
  BY <1>14, <1>0 DEF ListSessions, CallGoes
<1>15. ASSUME NEW v \in Revocations, RevokeTerminates(v) PROVE CredentialsOffDisk'
  BY <1>15, <1>0 DEF RevokeTerminates, Marks
<1>16. ASSUME NEW v \in Revocations, RevokeReturns(v) PROVE CredentialsOffDisk'
  BY <1>16, <1>0 DEF RevokeReturns, CallGoes
<1>17. ASSUME NEW e \in Emails, NEW h \in Hosts, Grants(e, h) PROVE CredentialsOffDisk'
  BY <1>17, <1>0 DEF Grants, GrantAccess
<1>18. ASSUME NEW e \in Emails, NEW k \in Keys, ChangesKeys(e, k) PROVE CredentialsOffDisk'
  BY <1>18, <1>0 DEF ChangesKeys, AddPublicKey, RemovePublicKey
<1>19. CASE Start
  BY <1>19, <1>0 DEF Start
<1>20. CASE EnsureCertificates
  BY <1>20, <1>0 DEF EnsureCertificates, Ensure, Generate, CreateCert, WriteCert, CreateKey, WriteKey
<1>21. CASE ListenAndServe
  BY <1>21, <1>0 DEF ListenAndServe
<1>22. CASE ShutdownBegins
  BY <1>22, <1>0 DEF ShutdownBegins
<1>23. CASE ServerShutdown
  BY <1>23, <1>0 DEF ServerShutdown
<1>24. CASE Deadline
  BY <1>24, <1>0 DEF Deadline
<1>25. ASSUME NEW how \in {"stopped", "crashed"}, GoesDown(how) PROVE CredentialsOffDisk'
  BY <1>25, <1>0 DEF GoesDown, StoreLost, GenerateEnds
<1>26. CASE UNCHANGED vars
  BY <1>26, <1>0 DEF vars
<1> HIDE DEF storeVars, certVars, mainVars, requestVars, callVars, TypeOK, CredentialsOffDisk, SettingUp,
           Handled
<1>27. QED
  BY [Next]_vars, <1>1, <1>2, <1>3, <1>4, <1>5, <1>6, <1>7, <1>8, <1>9, <1>10, <1>11, <1>12, <1>13,
     <1>14, <1>15, <1>16, <1>17, <1>18, <1>19, <1>20, <1>21, <1>22, <1>23, <1>24, <1>25, <1>26
  DEF Next, Main, Exit, Crash, Proceed, Revoke

(* Ensure and the four steps of Generate, which a crash may end after any of them: the key is *)
(* created only when the certificate is written.                                              *)
LEMMA CertificatesStay ==
  ASSUME IndInv, [Next]_vars
  PROVE  CertInv'
<1> USE DEF storeVars, certVars, mainVars, requestVars, callVars, CertInv, Up, Serves, Shutdown
<1>0. CertInv /\ TypeOK
  BY DEF IndInv
<1>1. ASSUME NEW r \in Requests, Verify(r) PROVE CertInv'
  BY <1>1, <1>0 DEF Verify, Goes
<1>2. ASSUME NEW r \in Requests, FindsGrant(r) PROVE CertInv'
  BY <1>2, <1>0 DEF FindsGrant, Goes
<1>3. ASSUME NEW r \in Requests, Admit(r) PROVE CertInv'
  BY <1>3, <1>0 DEF Admit, Goes
<1>4. ASSUME NEW r \in Requests, StartProxy(r) PROVE CertInv'
  BY <1>4, <1>0 DEF StartProxy, Goes
<1>5. ASSUME NEW r \in Requests, Register(r) PROVE CertInv'
  BY <1>5, <1>0 DEF Register, Goes
<1>6. ASSUME NEW r \in Requests, Refuse(r) PROVE CertInv'
  BY <1>6, <1>0 DEF Refuse, Ends
<1>7. ASSUME NEW r \in Requests, WriteConfigFails(r) PROVE CertInv'
  BY <1>7, <1>0 DEF WriteConfigFails
<1>8. ASSUME NEW r \in Requests, OtherTerminates(r) PROVE CertInv'
  BY <1>8, <1>0 DEF OtherTerminates, Marks
<1>9. ASSUME NEW r \in Requests, DrainTerminates(r) PROVE CertInv'
  BY <1>9, <1>0 DEF DrainTerminates, Marks
<1>10. ASSUME NEW r \in Requests, Terminated(r) PROVE CertInv'
  BY <1>10, <1>0 DEF Terminated, Ends
<1>11. ASSUME NEW r \in Requests, ProxyExits(r) PROVE CertInv'
  BY <1>11, <1>0 DEF ProxyExits, Marks
<1>12. ASSUME NEW v \in Revocations, RevokeChecks(v) PROVE CertInv'
  BY <1>12, <1>0 DEF RevokeChecks, CallGoes
<1>13. ASSUME NEW v \in Revocations, Revokes(v) PROVE CertInv'
  BY <1>13, <1>0 DEF Revokes, CallGoes, RevokeAccess
<1>14. ASSUME NEW v \in Revocations, ListSessions(v) PROVE CertInv'
  BY <1>14, <1>0 DEF ListSessions, CallGoes
<1>15. ASSUME NEW v \in Revocations, RevokeTerminates(v) PROVE CertInv'
  BY <1>15, <1>0 DEF RevokeTerminates, Marks
<1>16. ASSUME NEW v \in Revocations, RevokeReturns(v) PROVE CertInv'
  BY <1>16, <1>0 DEF RevokeReturns, CallGoes
<1>17. ASSUME NEW e \in Emails, NEW h \in Hosts, Grants(e, h) PROVE CertInv'
  BY <1>17, <1>0 DEF Grants, GrantAccess
<1>18. ASSUME NEW e \in Emails, NEW k \in Keys, ChangesKeys(e, k) PROVE CertInv'
  BY <1>18, <1>0 DEF ChangesKeys, AddPublicKey, RemovePublicKey
<1>19. CASE Start
  BY <1>19, <1>0 DEF Start
<1>20. CASE EnsureCertificates
  <2>1. phase' = phase /\ phase = "starting" /\ pair \in Nat
    BY <1>0, <1>20 DEF EnsureCertificates, TypeOK, CertTypeOK
  <2>2. CASE Ensure
    <3>1. CASE BothExist
      BY <1>0, <2>1, <2>2, <3>1 DEF Ensure, BothExist
    <3>2. CASE ~BothExist
      <4>1. key = NoFile
        BY <1>0, <3>2 DEF BothExist
      <4>2. making' = "generated" /\ pair' = pair + 1 /\ cert' = cert /\ key' = key
        BY <2>2, <3>2 DEF Ensure
      <4>3. pair' > 0
        BY <2>1, <4>2
      <4>4. QED
        BY <1>0, <2>1, <4>1, <4>2, <4>3
    <3>3. QED
      BY <3>1, <3>2
  <2>3. CASE CreateCert
    BY <1>0, <2>1, <2>3, Files DEF CreateCert
  <2>4. CASE WriteCert
    BY <1>0, <2>1, <2>4, Files DEF WriteCert
  <2>5. CASE CreateKey
    BY <1>0, <2>1, <2>5, Files DEF CreateKey
  <2>6. CASE WriteKey
    BY <1>0, <2>1, <2>6, Files DEF WriteKey
  <2>7. QED
    BY <1>20, <2>2, <2>3, <2>4, <2>5, <2>6 DEF EnsureCertificates, Generate
<1>21. CASE ListenAndServe
  BY <1>21, <1>0 DEF ListenAndServe
<1>22. CASE ShutdownBegins
  BY <1>22, <1>0 DEF ShutdownBegins
<1>23. CASE ServerShutdown
  BY <1>23, <1>0 DEF ServerShutdown
<1>24. CASE Deadline
  BY <1>24, <1>0 DEF Deadline
<1>25. ASSUME NEW how \in {"stopped", "crashed"}, GoesDown(how) PROVE CertInv'
  BY <1>25, <1>0 DEF GoesDown, StoreLost, GenerateEnds
<1>26. CASE UNCHANGED vars
  BY <1>26, <1>0 DEF vars
<1> HIDE DEF storeVars, certVars, mainVars, requestVars, callVars, CertInv, Up, Serves, Shutdown
<1>27. QED
  BY [Next]_vars, <1>1, <1>2, <1>3, <1>4, <1>5, <1>6, <1>7, <1>8, <1>9, <1>10, <1>11, <1>12, <1>13,
     <1>14, <1>15, <1>16, <1>17, <1>18, <1>19, <1>20, <1>21, <1>22, <1>23, <1>24, <1>25, <1>26
  DEF Next, Main, Exit, Crash, Proceed, Revoke

(* Only the caller that marked a session ends it, and a revocation returns only when none of *)
(* its own is left.                                                                          *)
LEMMA OwnersStay ==
  ASSUME IndInv, [Next]_vars
  PROVE  OwnersAgree'
<1> USE DEF storeVars, certVars, mainVars, requestVars, callVars, TypeOK, OwnersAgree, SettingUp, Handled
<1>0. TypeOK /\ OwnersAgree /\ ShutdownAgrees
  BY DEF IndInv
<1>1. ASSUME NEW r \in Requests, Verify(r) PROVE OwnersAgree'
  BY <1>1, <1>0 DEF Verify, Goes
<1>2. ASSUME NEW r \in Requests, FindsGrant(r) PROVE OwnersAgree'
  BY <1>2, <1>0 DEF FindsGrant, Goes
<1>3. ASSUME NEW r \in Requests, Admit(r) PROVE OwnersAgree'
  BY <1>3, <1>0 DEF Admit, Goes
<1>4. ASSUME NEW r \in Requests, StartProxy(r) PROVE OwnersAgree'
  BY <1>4, <1>0 DEF StartProxy, Goes
<1>5. ASSUME NEW r \in Requests, Register(r) PROVE OwnersAgree'
  BY <1>5, <1>0 DEF Register, Goes
<1>6. ASSUME NEW r \in Requests, Refuse(r) PROVE OwnersAgree'
  BY <1>6, <1>0 DEF Refuse, Ends
<1>7. ASSUME NEW r \in Requests, WriteConfigFails(r) PROVE OwnersAgree'
  BY <1>7, <1>0 DEF WriteConfigFails
<1>8. ASSUME NEW r \in Requests, OtherTerminates(r) PROVE OwnersAgree'
  BY <1>8, <1>0, BrokerAssumption DEF OtherTerminates, Marks
<1>9. ASSUME NEW r \in Requests, DrainTerminates(r) PROVE OwnersAgree'
  BY <1>9, <1>0, BrokerAssumption DEF DrainTerminates, Marks
<1>10. ASSUME NEW r \in Requests, Terminated(r) PROVE OwnersAgree'
  BY <1>10, <1>0 DEF Terminated, Ends
<1>11. ASSUME NEW r \in Requests, ProxyExits(r) PROVE OwnersAgree'
  BY <1>11, <1>0, BrokerAssumption DEF ProxyExits, Marks
<1>12. ASSUME NEW v \in Revocations, RevokeChecks(v) PROVE OwnersAgree'
  BY <1>12, <1>0 DEF RevokeChecks, CallGoes
<1>13. ASSUME NEW v \in Revocations, Revokes(v) PROVE OwnersAgree'
  BY <1>13, <1>0 DEF Revokes, CallGoes, RevokeAccess
<1>14. ASSUME NEW v \in Revocations, ListSessions(v) PROVE OwnersAgree'
  BY <1>14, <1>0 DEF ListSessions, CallGoes
<1>15. ASSUME NEW v \in Revocations, RevokeTerminates(v) PROVE OwnersAgree'
  BY <1>15, <1>0, BrokerAssumption DEF RevokeTerminates, Marks
<1>16. ASSUME NEW v \in Revocations, RevokeReturns(v) PROVE OwnersAgree'
  BY <1>16, <1>0 DEF RevokeReturns, CallGoes, Busy
<1>17. ASSUME NEW e \in Emails, NEW h \in Hosts, Grants(e, h) PROVE OwnersAgree'
  BY <1>17, <1>0 DEF Grants, GrantAccess
<1>18. ASSUME NEW e \in Emails, NEW k \in Keys, ChangesKeys(e, k) PROVE OwnersAgree'
  BY <1>18, <1>0 DEF ChangesKeys, AddPublicKey, RemovePublicKey
<1>19. CASE Start
  BY <1>19, <1>0 DEF Start
<1>20. CASE EnsureCertificates
  BY <1>20, <1>0 DEF EnsureCertificates, Ensure, Generate, CreateCert, WriteCert, CreateKey, WriteKey
<1>21. CASE ListenAndServe
  BY <1>21, <1>0 DEF ListenAndServe
<1>22. CASE ShutdownBegins
  BY <1>22, <1>0 DEF ShutdownBegins, ShutdownAgrees
<1>23. CASE ServerShutdown
  BY <1>23, <1>0 DEF ServerShutdown
<1>24. CASE Deadline
  BY <1>24, <1>0 DEF Deadline
<1>25. ASSUME NEW how \in {"stopped", "crashed"}, GoesDown(how) PROVE OwnersAgree'
  BY <1>25, <1>0 DEF GoesDown, StoreLost, GenerateEnds
<1>26. CASE UNCHANGED vars
  BY <1>26, <1>0 DEF vars
<1> HIDE DEF storeVars, certVars, mainVars, requestVars, callVars, TypeOK, OwnersAgree, SettingUp, Handled
<1>27. QED
  BY [Next]_vars, <1>1, <1>2, <1>3, <1>4, <1>5, <1>6, <1>7, <1>8, <1>9, <1>10, <1>11, <1>12, <1>13,
     <1>14, <1>15, <1>16, <1>17, <1>18, <1>19, <1>20, <1>21, <1>22, <1>23, <1>24, <1>25, <1>26
  DEF Next, Main, Exit, Crash, Proceed, Revoke

(* The list that Shutdown takes holds every session there is then; one that becomes active *)
(* later was past Admit when the flag was set, and no request passes Admit after that.      *)
LEMMA ShutdownStays ==
  ASSUME IndInv, [Next]_vars
  PROVE  ShutdownAgrees'
<1> USE DEF storeVars, certVars, mainVars, requestVars, callVars, TypeOK, ShutdownAgrees, Drained,
           Shutdown, Serves, Up, SettingUp, Handled
<1>0. TypeOK /\ ShutdownAgrees /\ OwnersAgree
  BY DEF IndInv
<1>1. ASSUME NEW r \in Requests, Verify(r) PROVE ShutdownAgrees'
  BY <1>1, <1>0 DEF Verify, Goes
<1>2. ASSUME NEW r \in Requests, FindsGrant(r) PROVE ShutdownAgrees'
  BY <1>2, <1>0 DEF FindsGrant, Goes
<1>3. ASSUME NEW r \in Requests, Admit(r) PROVE ShutdownAgrees'
  BY <1>3, <1>0 DEF Admit, Goes
<1>4. ASSUME NEW r \in Requests, StartProxy(r) PROVE ShutdownAgrees'
  BY <1>4, <1>0 DEF StartProxy, Goes
<1>5. ASSUME NEW r \in Requests, Register(r) PROVE ShutdownAgrees'
  BY <1>5, <1>0 DEF Register, Goes
<1>6. ASSUME NEW r \in Requests, Refuse(r) PROVE ShutdownAgrees'
  BY <1>6, <1>0 DEF Refuse, Ends
<1>7. ASSUME NEW r \in Requests, WriteConfigFails(r) PROVE ShutdownAgrees'
  BY <1>7, <1>0 DEF WriteConfigFails
<1>8. ASSUME NEW r \in Requests, OtherTerminates(r) PROVE ShutdownAgrees'
  BY <1>8, <1>0 DEF OtherTerminates, Marks
<1>9. ASSUME NEW r \in Requests, DrainTerminates(r) PROVE ShutdownAgrees'
  BY <1>9, <1>0 DEF DrainTerminates, Marks
<1>10. ASSUME NEW r \in Requests, Terminated(r) PROVE ShutdownAgrees'
  BY <1>10, <1>0 DEF Terminated, Ends
<1>11. ASSUME NEW r \in Requests, ProxyExits(r) PROVE ShutdownAgrees'
  BY <1>11, <1>0 DEF ProxyExits, Marks
<1>12. ASSUME NEW v \in Revocations, RevokeChecks(v) PROVE ShutdownAgrees'
  BY <1>12, <1>0 DEF RevokeChecks, CallGoes
<1>13. ASSUME NEW v \in Revocations, Revokes(v) PROVE ShutdownAgrees'
  BY <1>13, <1>0 DEF Revokes, CallGoes, RevokeAccess
<1>14. ASSUME NEW v \in Revocations, ListSessions(v) PROVE ShutdownAgrees'
  BY <1>14, <1>0 DEF ListSessions, CallGoes
<1>15. ASSUME NEW v \in Revocations, RevokeTerminates(v) PROVE ShutdownAgrees'
  BY <1>15, <1>0, BrokerAssumption DEF RevokeTerminates, Marks
<1>16. ASSUME NEW v \in Revocations, RevokeReturns(v) PROVE ShutdownAgrees'
  BY <1>16, <1>0 DEF RevokeReturns, CallGoes
<1>17. ASSUME NEW e \in Emails, NEW h \in Hosts, Grants(e, h) PROVE ShutdownAgrees'
  BY <1>17, <1>0 DEF Grants, GrantAccess
<1>18. ASSUME NEW e \in Emails, NEW k \in Keys, ChangesKeys(e, k) PROVE ShutdownAgrees'
  BY <1>18, <1>0 DEF ChangesKeys, AddPublicKey, RemovePublicKey
<1>19. CASE Start
  BY <1>19, <1>0 DEF Start
<1>20. CASE EnsureCertificates
  BY <1>20, <1>0 DEF EnsureCertificates, Ensure, Generate, CreateCert, WriteCert, CreateKey, WriteKey
<1>21. CASE ListenAndServe
  BY <1>21, <1>0 DEF ListenAndServe
<1>22. CASE ShutdownBegins
  BY <1>22, <1>0 DEF ShutdownBegins
<1>23. CASE ServerShutdown
  BY <1>23, <1>0 DEF ServerShutdown
<1>24. CASE Deadline
  BY <1>24, <1>0 DEF Deadline
<1>25. ASSUME NEW how \in {"stopped", "crashed"}, GoesDown(how) PROVE ShutdownAgrees'
  BY <1>25, <1>0 DEF GoesDown, StoreLost, GenerateEnds
<1>26. CASE UNCHANGED vars
  BY <1>26, <1>0 DEF vars
<1> HIDE DEF storeVars, certVars, mainVars, requestVars, callVars, TypeOK, ShutdownAgrees, Drained,
           Shutdown, Serves, Up, SettingUp, Handled
<1>27. QED
  BY [Next]_vars, <1>1, <1>2, <1>3, <1>4, <1>5, <1>6, <1>7, <1>8, <1>9, <1>10, <1>11, <1>12, <1>13,
     <1>14, <1>15, <1>16, <1>17, <1>18, <1>19, <1>20, <1>21, <1>22, <1>23, <1>24, <1>25, <1>26
  DEF Next, Main, Exit, Crash, Proceed, Revoke

(* A request finds a newer grant than a revocation that has removed the old one. One that *)
(* had found the old grant is listed or missed; one that is listed is still to be looked   *)
(* at, or no longer active.                                                                *)
LEMMA RevocationsStay ==
  ASSUME IndInv, [Next]_vars
  PROVE  RevocationAgrees'
<1> USE DEF storeVars, certVars, mainVars, requestVars, callVars, TypeOK, RevocationAgrees, Covers,
           FindGrant, SettingUp, Handled
<1>0. TypeOK /\ RevocationAgrees
  BY DEF IndInv
<1>1. ASSUME NEW r \in Requests, Verify(r) PROVE RevocationAgrees'
  BY <1>1, <1>0 DEF Verify, Goes
<1>2. ASSUME NEW r \in Requests, FindsGrant(r) PROVE RevocationAgrees'
  BY <1>2, <1>0, Names DEF FindsGrant, Goes, HasAccess, StoreTypeOK
<1>3. ASSUME NEW r \in Requests, Admit(r) PROVE RevocationAgrees'
  BY <1>3, <1>0 DEF Admit, Goes
<1>4. ASSUME NEW r \in Requests, StartProxy(r) PROVE RevocationAgrees'
  BY <1>4, <1>0 DEF StartProxy, Goes
<1>5. ASSUME NEW r \in Requests, Register(r) PROVE RevocationAgrees'
  BY <1>5, <1>0 DEF Register, Goes
<1>6. ASSUME NEW r \in Requests, Refuse(r) PROVE RevocationAgrees'
  BY <1>6, <1>0 DEF Refuse, Ends
<1>7. ASSUME NEW r \in Requests, WriteConfigFails(r) PROVE RevocationAgrees'
  BY <1>7, <1>0 DEF WriteConfigFails
<1>8. ASSUME NEW r \in Requests, OtherTerminates(r) PROVE RevocationAgrees'
  BY <1>8, <1>0 DEF OtherTerminates, Marks
<1>9. ASSUME NEW r \in Requests, DrainTerminates(r) PROVE RevocationAgrees'
  BY <1>9, <1>0 DEF DrainTerminates, Marks
<1>10. ASSUME NEW r \in Requests, Terminated(r) PROVE RevocationAgrees'
  BY <1>10, <1>0 DEF Terminated, Ends
<1>11. ASSUME NEW r \in Requests, ProxyExits(r) PROVE RevocationAgrees'
  BY <1>11, <1>0 DEF ProxyExits, Marks
<1>12. ASSUME NEW v \in Revocations, RevokeChecks(v) PROVE RevocationAgrees'
  BY <1>12, <1>0 DEF RevokeChecks, CallGoes
<1>13. ASSUME NEW v \in Revocations, Revokes(v) PROVE RevocationAgrees'
  BY <1>13, <1>0, Names DEF Revokes, CallGoes, RevokeAccess, StoreTypeOK
<1>14. ASSUME NEW v \in Revocations, ListSessions(v) PROVE RevocationAgrees'
  BY <1>14, <1>0, Names DEF ListSessions, CallGoes, MatchesUser, Normalized
<1>15. ASSUME NEW v \in Revocations, RevokeTerminates(v) PROVE RevocationAgrees'
  BY <1>15, <1>0 DEF RevokeTerminates, Marks
<1>16. ASSUME NEW v \in Revocations, RevokeReturns(v) PROVE RevocationAgrees'
  BY <1>16, <1>0 DEF RevokeReturns, CallGoes
<1>17. ASSUME NEW e \in Emails, NEW h \in Hosts, Grants(e, h) PROVE RevocationAgrees'
  BY <1>17, <1>0, Names DEF Grants, GrantAccess, StoreTypeOK
<1>18. ASSUME NEW e \in Emails, NEW k \in Keys, ChangesKeys(e, k) PROVE RevocationAgrees'
  BY <1>18, <1>0 DEF ChangesKeys, AddPublicKey, RemovePublicKey
<1>19. CASE Start
  BY <1>19, <1>0 DEF Start
<1>20. CASE EnsureCertificates
  BY <1>20, <1>0 DEF EnsureCertificates, Ensure, Generate, CreateCert, WriteCert, CreateKey, WriteKey
<1>21. CASE ListenAndServe
  BY <1>21, <1>0 DEF ListenAndServe
<1>22. CASE ShutdownBegins
  BY <1>22, <1>0 DEF ShutdownBegins
<1>23. CASE ServerShutdown
  BY <1>23, <1>0 DEF ServerShutdown
<1>24. CASE Deadline
  BY <1>24, <1>0 DEF Deadline
<1>25. ASSUME NEW how \in {"stopped", "crashed"}, GoesDown(how) PROVE RevocationAgrees'
  BY <1>25, <1>0 DEF GoesDown, StoreLost, GenerateEnds
<1>26. CASE UNCHANGED vars
  BY <1>26, <1>0 DEF vars
<1> HIDE DEF storeVars, certVars, mainVars, requestVars, callVars, TypeOK, RevocationAgrees, Covers,
           FindGrant, SettingUp, Handled
<1>27. QED
  BY [Next]_vars, <1>1, <1>2, <1>3, <1>4, <1>5, <1>6, <1>7, <1>8, <1>9, <1>10, <1>11, <1>12, <1>13,
     <1>14, <1>15, <1>16, <1>17, <1>18, <1>19, <1>20, <1>21, <1>22, <1>23, <1>24, <1>25, <1>26
  DEF Next, Main, Exit, Crash, Proceed, Revoke

-----------------------------------------------------------------------------
(* Nothing has happened when the broker is first started. *)
LEMMA InitInv == ASSUME Init PROVE IndInv
<1> USE DEF Init
<1>1. MaxStarts \in Nat /\ MaxGrants \in Nat
  BY BrokerAssumption, MaxGrantsAssumption
<1>2. StoreTypeOK
  BY <1>1 DEF StoreInit, StoreTypeOK
<1>3. NoFile \in File /\ ~NoFile.exists
  BY DEF NoFile, File
<1>4. CertTypeOK
  BY <1>3 DEF CertInit, CertTypeOK
<1>5. TypeOK
  <2>1. starts \in 0 .. MaxStarts /\ granted = 0 /\ 0 \in 0 .. granted
    BY <1>1 DEF StoreInit
  <2>2. QED
    BY <1>2, <1>4, <2>1 DEF TypeOK, Handled
<1>6. OwnersAgree
  BY DEF OwnersAgree
<1>7. ShutdownAgrees
  BY DEF ShutdownAgrees, Shutdown, SettingUp
<1>8. RevocationAgrees
  BY DEF RevocationAgrees
<1>9. CertInv
  BY <1>3 DEF CertInv, CertInit
<1>10. CredentialsOffDisk
  BY DEF CredentialsOffDisk
<1>11. QED
  BY <1>5, <1>6, <1>7, <1>8, <1>9, <1>10 DEF IndInv

LEMMA StepInv == ASSUME IndInv, [Next]_vars PROVE IndInv'
BY TypesStay, OwnersStay, ShutdownStays, RevocationsStay, CertificatesStay, CredentialsStay DEF IndInv

(* The inductive invariant holds in every state the broker reaches. *)
LEMMA Inductive == Spec => []IndInv
BY InitInv, StepInv, PTL DEF Spec

-----------------------------------------------------------------------------
(* The variables of main.go, store.go, generate.go and the handlers stay in their sets,     *)
(* through crashes and restarts.                                                            *)
THEOREM TypeCorrect == Spec => []TypeOK
<1>1. IndInv => TypeOK
  BY DEF IndInv
<1>2. QED
  BY <1>1, Inductive, PTL

(* When revokeAccess has returned, no session of that access is active but those it is known *)
(* to miss: requests between the look at the grant and the registration of the session.      *)
THEOREM RevocationReachesAll == Spec => []RevokeReachesAll
<1>1. ASSUME IndInv PROVE RevokeReachesAll
  <2>1. SUFFICES ASSUME NEW v \in Revocations, NEW r \in Requests,
                        call[v] = "returned", pc[r] = "active", Covers(v, r)
                 PROVE  r \in missed[v]
    BY DEF RevokeReachesAll
  <2>2. RevocationAgrees
    BY <1>1 DEF IndInv
  <2>3. r \in missed[v] \cup listed[v] /\ listed[v] = {}
    BY <2>1, <2>2 DEF RevocationAgrees
  <2>4. QED
    BY <2>3
<1>2. QED
  BY <1>1, Inductive, PTL

(* What main serves with is a certificate and the key it was made from, whichever step of    *)
(* Generate an earlier life of the broker died in, but for the one that leaves an empty key. *)
THEOREM CertificatesMatch == Spec => []PairMatches
<1>1. ASSUME IndInv PROVE PairMatches
  <2>1. SUFFICES ASSUME Up, key # Created
                 PROVE  cert = key /\ cert \notin {NoFile, Created}
    BY DEF PairMatches
  <2>2. CertInv
    BY <1>1 DEF IndInv
  <2>3. making = "done"
    BY <2>1, <2>2 DEF CertInv, Up
  <2>4. key.exists /\ key # NoFile
    BY <2>2, <2>3, Files DEF CertInv
  <2>5. QED
    BY <2>1, <2>2, <2>4 DEF CertInv
<1>2. QED
  BY <1>1, Inductive, PTL

(* proxy.ini, with the password, is on disk only while its session is set up, but for what a *)
(* crash or a failed WriteConfig left.                                                        *)
THEOREM PasswordsRemoved == Spec => []CredentialsOffDisk
<1>1. IndInv => CredentialsOffDisk
  BY DEF IndInv
<1>2. QED
  BY <1>1, Inductive, PTL

(* Only Exit ends a shutdown. When it does so before the deadline, every session that         *)
(* Shutdown listed has been ended and no handler runs, so that a proxy that is left belongs   *)
(* to a session that was set up too late, or that the monitor was ending.                     *)
THEOREM ExitsClean == Spec => ExitClean
<1>1. ASSUME IndInv, [Next]_vars, phase = "closing", phase' = "stopped", ~expired,
             NEW r \in running
      PROVE  pc[r] = "lost" \/ LeftBehind(r)
  <2>1. TypeOK /\ OwnersAgree /\ ShutdownAgrees
    BY <1>1 DEF IndInv
  <2>2. r \in Requests
    BY <2>1 DEF TypeOK
  <2>3. Exit
    <3>1. ASSUME NEW q \in Requests,
                 \/ Verify(q) \/ Proceed(q) \/ OtherTerminates(q) \/ DrainTerminates(q)
                 \/ Terminated(q) \/ ProxyExits(q)
          PROVE  phase' = phase
      BY <3>1 DEF Verify, Proceed, FindsGrant, Admit, StartProxy, Register, Refuse, WriteConfigFails,
                  OtherTerminates, DrainTerminates, Terminated, ProxyExits, mainVars
    <3>2. ASSUME NEW v \in Revocations, RevokeChecks(v) \/ Revoke(v) PROVE phase' = phase
      BY <3>2 DEF RevokeChecks, Revoke, Revokes, ListSessions, RevokeTerminates, RevokeReturns, mainVars
    <3>3. ASSUME NEW e \in Emails,
                 (\E h \in Hosts : Grants(e, h)) \/ (\E k \in Keys : ChangesKeys(e, k))
          PROVE  phase' = phase
      BY <3>3 DEF Grants, ChangesKeys, mainVars
    <3>4. CASE Start \/ ShutdownBegins \/ Deadline \/ Crash
      BY <1>1, <3>4 DEF Start, ShutdownBegins, Deadline, Crash, GoesDown
    <3>5. CASE EnsureCertificates \/ ListenAndServe \/ ServerShutdown
      BY <1>1, <3>5 DEF EnsureCertificates, ListenAndServe, ServerShutdown, mainVars
    <3>6. CASE UNCHANGED vars
      BY <1>1, <3>6 DEF vars, mainVars
    <3>7. QED
      BY <1>1, <3>1, <3>2, <3>3, <3>4, <3>5, <3>6 DEF Next, Main
  <2>4. Quiet /\ Drained
    BY <1>1, <2>1, <2>3 DEF Exit, ShutdownAgrees
  <2>5. pc[r] \in {"started", "active", "terminating", "lost"}
    BY <2>1 DEF OwnersAgree
  <2>6. CASE pc[r] = "started"
    BY <2>2, <2>4, <2>6 DEF Quiet, Handled, SettingUp
  <2>7. CASE pc[r] = "active"
    <3>1. r \in draining \cup late
      BY <1>1, <2>1, <2>2, <2>7 DEF ShutdownAgrees, Shutdown
    <3>2. r \notin draining
      BY <2>4, <2>7 DEF Drained
    <3>3. QED
      BY <3>1, <3>2 DEF LeftBehind
  <2>8. CASE pc[r] = "terminating"
    <3>1. killer[r] \in {"nobody", "api", "monitor", "shutdown"} \cup Revocations
      BY <2>1, <2>2 DEF TypeOK
    <3>2. killer[r] \notin {"nobody", "api"}
      BY <2>1, <2>2, <2>4, <2>8 DEF OwnersAgree, Quiet
    <3>3. killer[r] # "shutdown"
      BY <2>1, <2>2, <2>4, <2>8 DEF OwnersAgree, Drained
    <3>4. killer[r] \notin Revocations
      BY <2>1, <2>2, <2>4, <2>8 DEF OwnersAgree, Quiet
    <3>5. QED
      BY <2>8, <3>1, <3>2, <3>3, <3>4 DEF LeftBehind
  <2>9. QED
    BY <2>5, <2>6, <2>7, <2>8
<1>2. ASSUME IndInv, [Next]_vars
      PROVE  [phase = "closing" /\ phase' = "stopped" /\ ~expired =>
                \A r \in running : pc[r] = "lost" \/ LeftBehind(r)]_vars
  BY <1>1, <1>2
<1>3. QED
  BY <1>2, Inductive, PTL DEF Spec, ExitClean

-----------------------------------------------------------------------------
(* The broker implements AccessPolicy. *)

SessionMap == [r \in Requests |-> SessionOf(r)]
BasisMap   == [r \in Requests |-> BasisOf(r)]
CallMap    == [v \in Revocations |-> CallOf(v)]

PolicyVars == <<grants, granted, SessionMap, BasisMap, CallMap, asOf, missed>>

(* A step of the broker seen through the mapping. *)
Refined == Access!Next \/ UNCHANGED PolicyVars

LEMMA SessionsKept ==
  ASSUME \A r \in Requests : SessionOf(r)' = SessionOf(r) /\ BasisOf(r)' = BasisOf(r)
  PROVE  UNCHANGED <<SessionMap, BasisMap>>
BY DEF SessionMap, BasisMap

LEMMA CallsKept == ASSUME call' = call PROVE UNCHANGED CallMap
BY DEF CallMap, CallOf

(* The request, or its session, is over. *)
LEMMA Closes ==
  ASSUME TypeOK, NEW r \in Requests, pc[r] \in Handled \cup {"active"},
         NEW x \in {"terminating", "over"}, pc' = [pc EXCEPT ![r] = x],
         \A q \in Requests \ {r} : from'[q] = from[q],
         UNCHANGED <<grants, granted, call, asOf, missed>>
  PROVE  Refined
<1>1. SessionOf(r)' = "gone" /\ BasisOf(r)' = 0 /\ SessionOf(r) # "gone"
  BY DEF SessionOf, BasisOf, Pending, SettingUp, Handled, TypeOK
<1>2. \A q \in Requests \ {r} : SessionOf(q)' = SessionOf(q) /\ BasisOf(q)' = BasisOf(q)
  BY DEF SessionOf, BasisOf, TypeOK
<1>3. /\ SessionMap' = [SessionMap EXCEPT ![r] = "gone"]
      /\ BasisMap' = [BasisMap EXCEPT ![r] = 0]
  BY <1>1, <1>2 DEF SessionMap, BasisMap
<1>4. Access!Close(r)
  BY <1>1, <1>3, CallsKept DEF Access!Close, SessionMap, BasisMap, CallMap
<1>5. QED
  BY <1>4 DEF Refined, Access!Next

LEMMA MarksCloses ==
  ASSUME TypeOK, NEW r \in Requests, NEW by, Marks(r, by),
         UNCHANGED <<grants, granted, from, call, asOf, missed>>
  PROVE  Refined
BY Closes DEF Marks

(* The request goes on, and no further than the policy sees. *)
LEMMA Waits ==
  ASSUME TypeOK, NEW r \in Requests, NEW x, pc' = [pc EXCEPT ![r] = x],
         SessionOf(r)' = SessionOf(r), BasisOf(r)' = BasisOf(r),
         \A q \in Requests \ {r} : from'[q] = from[q],
         UNCHANGED <<grants, granted, call, asOf, missed>>
  PROVE  Refined
<1>1. \A q \in Requests : SessionOf(q)' = SessionOf(q) /\ BasisOf(q)' = BasisOf(q)
  BY DEF SessionOf, BasisOf, TypeOK
<1>2. QED
  BY <1>1, SessionsKept, CallsKept DEF Refined, PolicyVars

LEMMA RefinedRequest ==
  ASSUME IndInv, NEW r \in Requests, Verify(r) \/ Proceed(r)
  PROVE  Refined
<1> USE DEF storeVars, callVars, mainVars
<1>0. TypeOK
  BY DEF IndInv
<1>1. CASE Verify(r)
  BY <1>0, <1>1, Waits DEF Verify, Goes, SessionOf, BasisOf, Pending, SettingUp, TypeOK
<1>2. CASE FindsGrant(r)
  <2>1. pc[r] = "verified" /\ pc' = [pc EXCEPT ![r] = "found"]
    BY <1>2 DEF FindsGrant, Goes
  <2>2. SessionOf(r) = "none" /\ SessionOf(r)' = "pending"
    BY <1>0, <2>1 DEF SessionOf, Pending, SettingUp, TypeOK
  <2>3. BasisOf(r)' = grants[Normalized(Who[r][1], Who[r][2])]
    BY <1>0, <1>2, <2>1 DEF FindsGrant, FindGrant, BasisOf, Pending, TypeOK
  <2>4. \A q \in Requests \ {r} : SessionOf(q)' = SessionOf(q) /\ BasisOf(q)' = BasisOf(q)
    BY <1>0, <1>2, <2>1 DEF FindsGrant, SessionOf, BasisOf, TypeOK
  <2>5. /\ SessionMap' = [SessionMap EXCEPT ![r] = "pending"]
        /\ BasisMap' = [BasisMap EXCEPT ![r] = grants[Normalized(Who[r][1], Who[r][2])]]
    BY <2>2, <2>3, <2>4 DEF SessionMap, BasisMap
  <2>6. Access!Admit(r)
    BY <1>2, <2>2, <2>5, CallsKept
    DEF FindsGrant, HasAccess, FindGrant, Access!Admit, SessionMap, BasisMap, CallMap
  <2>7. QED
    BY <2>6 DEF Refined, Access!Next
<1>3. CASE Admit(r)
  BY <1>0, <1>3, Waits DEF Admit, Goes, SessionOf, BasisOf, Pending, SettingUp, TypeOK
<1>4. CASE StartProxy(r)
  BY <1>0, <1>4, Waits DEF StartProxy, Goes, SessionOf, BasisOf, Pending, SettingUp, TypeOK
<1>5. CASE Register(r)
  <2>1. pc[r] = "started" /\ pc' = [pc EXCEPT ![r] = "active"] /\ from' = from
    BY <1>5 DEF Register, Goes
  <2>2. SessionOf(r) = "pending" /\ SessionOf(r)' = "live" /\ BasisOf(r)' = BasisOf(r)
    BY <1>0, <2>1 DEF SessionOf, BasisOf, Pending, SettingUp, TypeOK
  <2>3. \A q \in Requests \ {r} : SessionOf(q)' = SessionOf(q) /\ BasisOf(q)' = BasisOf(q)
    BY <1>0, <2>1 DEF SessionOf, BasisOf, TypeOK
  <2>4. SessionMap' = [SessionMap EXCEPT ![r] = "live"] /\ BasisMap' = BasisMap
    BY <2>2, <2>3 DEF SessionMap, BasisMap
  <2>5. Access!Open(r)
    BY <1>5, <2>2, <2>4, CallsKept DEF Register, Access!Open, SessionMap, BasisMap, CallMap
  <2>6. QED
    BY <2>5 DEF Refined, Access!Next
<1>6. CASE Refuse(r)
  BY <1>0, <1>6, Closes DEF Refuse, Ends, TypeOK
<1>7. CASE WriteConfigFails(r)
  BY <1>0, <1>7, Closes DEF WriteConfigFails, Handled, SettingUp, TypeOK
<1>8. QED
  BY <1>1, <1>2, <1>3, <1>4, <1>5, <1>6, <1>7, Verify(r) \/ Proceed(r) DEF Proceed

LEMMA RefinedSession ==
  ASSUME IndInv, NEW r \in Requests,
         OtherTerminates(r) \/ DrainTerminates(r) \/ Terminated(r) \/ ProxyExits(r)
  PROVE  Refined
<1> USE DEF storeVars, callVars, mainVars
<1>0. TypeOK
  BY DEF IndInv
<1>1. CASE OtherTerminates(r)   BY <1>0, <1>1, MarksCloses DEF OtherTerminates
<1>2. CASE DrainTerminates(r)   BY <1>0, <1>2, MarksCloses DEF DrainTerminates
<1>3. CASE Terminated(r)
  BY <1>0, <1>3, Waits DEF Terminated, Ends, SessionOf, BasisOf, Pending, SettingUp, TypeOK
<1>4. CASE ProxyExits(r)        BY <1>0, <1>4, MarksCloses DEF ProxyExits
<1>5. QED
  BY <1>1, <1>2, <1>3, <1>4,
     OtherTerminates(r) \/ DrainTerminates(r) \/ Terminated(r) \/ ProxyExits(r)


(* Nothing the policy sees of the requests changes. *)
LEMMA RequestsKept == ASSUME UNCHANGED <<pc, from>> PROVE UNCHANGED <<SessionMap, BasisMap>>
BY SessionsKept DEF SessionOf, BasisOf

LEMMA RefinedAccess ==
  ASSUME IndInv, NEW e \in Emails,
         (\E h \in Hosts : Grants(e, h)) \/ (\E k \in Keys : ChangesKeys(e, k))
  PROVE  Refined
<1> USE DEF requestVars, callVars
<1>1. ASSUME NEW h \in Hosts, Grants(e, h) PROVE Refined
  <2>1. Access!Give(Normalized(e, h))
    BY <1>1, RequestsKept, CallsKept
    DEF Grants, GrantAccess, Access!Give, SessionMap, BasisMap, CallMap
  <2>2. Normalized(e, h) \in Grant
    BY Names
  <2>3. QED
    BY <2>1, <2>2 DEF Refined, Access!Next
<1>2. ASSUME NEW k \in Keys, ChangesKeys(e, k) PROVE Refined
  BY <1>2, RequestsKept, CallsKept
  DEF ChangesKeys, AddPublicKey, RemovePublicKey, Refined, PolicyVars
<1>3. QED
  BY <1>1, <1>2, (\E h \in Hosts : Grants(e, h)) \/ (\E k \in Keys : ChangesKeys(e, k))

(* One revocation goes on. *)
LEMMA CallGoesOn ==
  ASSUME TypeOK, NEW v \in Revocations, NEW x, call' = [call EXCEPT ![v] = x], NEW y, CallOf(v)' = y
  PROVE  CallMap' = [CallMap EXCEPT ![v] = y]
<1>1. \A w \in Revocations \ {v} : CallOf(w)' = CallOf(w)
  BY DEF CallOf, TypeOK
<1>2. QED
  BY <1>1 DEF CallMap

(* RevokeReturns: when nothing listed is left, a session that rests on an older grant was *)
(* missed.                                                                                 *)
LEMMA RefinedReturn ==
  ASSUME IndInv, NEW v \in Revocations, RevokeReturns(v)
  PROVE  Refined
<1>0. TypeOK /\ RevocationAgrees
  BY DEF IndInv
<1>1. /\ call[v] = "ending" /\ call' = [call EXCEPT ![v] = "returned"] /\ listed[v] = {}
      /\ UNCHANGED <<grants, granted, pc, from, asOf, missed>>
  BY DEF RevokeReturns, CallGoes, storeVars, requestVars
<1>2. CallOf(v) = "looked" /\ CallOf(v)' = "returned"
  BY <1>0, <1>1 DEF CallOf, TypeOK
<1>3. CallMap' = [CallMap EXCEPT ![v] = "returned"]
  BY <1>0, <1>1, <1>2, CallGoesOn
<1>4. ASSUME NEW r \in Requests, SessionOf(r) = "live",
             Normalized(Who[r][1], Who[r][2]) = Normalized(Whose[v][1], Whose[v][2]),
             BasisOf(r) <= asOf[v]
      PROVE  r \in missed[v]
  <2>1. pc[r] = "active"
    BY <1>4 DEF SessionOf
  <2>2. Covers(v, r)
    BY <1>4, <2>1 DEF Covers, BasisOf
  <2>3. QED
    BY <1>0, <1>1, <2>1, <2>2 DEF RevocationAgrees
<1>5. Access!Return(v)
  BY <1>1, <1>2, <1>3, <1>4, RequestsKept
  DEF Access!Return, Access!Rests, SessionMap, BasisMap, CallMap
<1>6. QED
  BY <1>5 DEF Refined, Access!Next

LEMMA RefinedCall ==
  ASSUME IndInv, NEW v \in Revocations, RevokeChecks(v) \/ Revoke(v)
  PROVE  Refined
<1> USE DEF storeVars, requestVars
<1>0. TypeOK
  BY DEF IndInv
<1>1. CASE RevokeChecks(v)
  <2>1. call[v] = "idle" /\ call' = [call EXCEPT ![v] = "checked"]
    BY <1>1 DEF RevokeChecks, CallGoes
  <2>2. CallOf(v)' = CallOf(v)
    BY <1>0, <2>1 DEF CallOf, TypeOK
  <2>3. CallMap' = CallMap
    BY <1>0, <2>1, <2>2, CallGoesOn DEF CallMap
  <2>4. QED
    BY <1>1, <2>3, RequestsKept DEF RevokeChecks, Refined, PolicyVars
<1>2. CASE Revokes(v)
  <2>1. call[v] = "checked" /\ call' = [call EXCEPT ![v] = "revoked"]
    BY <1>2 DEF Revokes, CallGoes
  <2>2. CallOf(v) = "none" /\ CallOf(v)' = "withdrawn"
    BY <1>0, <2>1 DEF CallOf, TypeOK
  <2>3. CallMap' = [CallMap EXCEPT ![v] = "withdrawn"]
    BY <1>0, <2>1, <2>2, CallGoesOn
  <2>4. Access!Withdraw(v)
    BY <1>2, <2>2, <2>3, RequestsKept
    DEF Revokes, RevokeAccess, Access!Withdraw, SessionMap, BasisMap, CallMap
  <2>5. QED
    BY <2>4 DEF Refined, Access!Next
<1>3. CASE ListSessions(v)
  <2>1. call[v] = "revoked" /\ call' = [call EXCEPT ![v] = "ending"]
    BY <1>3 DEF ListSessions, CallGoes
  <2>2. CallOf(v) = "withdrawn" /\ CallOf(v)' = "looked"
    BY <1>0, <2>1 DEF CallOf, TypeOK
  <2>3. CallMap' = [CallMap EXCEPT ![v] = "looked"]
    BY <1>0, <2>1, <2>2, CallGoesOn
  <2>4. \A r \in Requests : pc[r] \in SettingUp \cup {"found"} <=> SessionOf(r) = "pending"
    BY DEF SessionOf, Pending, SettingUp
  <2>5. missed' = [missed EXCEPT ![v] = {r \in Requests : SessionMap[r] = "pending"}]
    BY <1>3, <2>4 DEF ListSessions, SessionMap
  <2>6. Access!Look(v)
    BY <1>3, <2>2, <2>3, <2>5, RequestsKept
    DEF ListSessions, Access!Look, SessionMap, BasisMap, CallMap
  <2>7. QED
    BY <2>6 DEF Refined, Access!Next
<1>4. CASE RevokeTerminates(v)
  <2>1. PICK r \in listed[v] : Marks(r, v) \/ UNCHANGED <<pc, killer>>
    BY <1>4 DEF RevokeTerminates
  <2>2. UNCHANGED <<grants, granted, from, call, asOf, missed>> /\ r \in Requests
    BY <1>0, <1>4 DEF RevokeTerminates, TypeOK
  <2>3. CASE Marks(r, v)
    BY <1>0, <2>2, <2>3, MarksCloses
  <2>4. CASE UNCHANGED <<pc, killer>>
    BY <2>2, <2>4, RequestsKept, CallsKept DEF Refined, PolicyVars
  <2>5. QED
    BY <2>1, <2>3, <2>4
<1>5. CASE RevokeReturns(v)
  BY <1>5, RefinedReturn
<1>6. QED
  BY <1>1, <1>2, <1>3, <1>4, <1>5, RevokeChecks(v) \/ Revoke(v) DEF Revoke

(* A restart begins without grants, and without sessions the policy could see. *)
LEMMA RefinedDown ==
  ASSUME IndInv, NEW how, GoesDown(how)
  PROVE  Refined
<1>0. TypeOK
  BY DEF IndInv
<1>1. /\ pc' = [r \in Requests |-> IF pc[r] = "idle" THEN "idle" ELSE "lost"]
      /\ call' = [v \in Revocations |-> IF call[v] = "idle" THEN "idle" ELSE "over"]
      /\ grants' = [g \in Grant |-> 0] /\ granted' = granted
      /\ asOf' = [v \in Revocations |-> 0] /\ missed' = [v \in Revocations |-> {}]
  BY DEF GoesDown, StoreLost
<1>2. \A r \in Requests : /\ SessionOf(r)' \in {"none", "gone"} /\ BasisOf(r)' = 0
                          /\ SessionOf(r)' = "none" => SessionOf(r) = "none"
  BY <1>1 DEF SessionOf, BasisOf, Pending, SettingUp
<1>3. \A v \in Revocations : /\ CallOf(v)' \in {"none", "gone"}
                             /\ CallOf(v)' = "none" => CallOf(v) = "none"
  BY <1>1 DEF CallOf
<1>4. /\ SessionMap' \in [Requests -> {"none", "gone"}]
      /\ \A r \in Requests : SessionMap'[r] = "none" => SessionMap[r] = "none"
      /\ BasisMap' = [r \in Requests |-> 0]
  BY <1>2 DEF SessionMap, BasisMap
<1>5. /\ CallMap' \in [Revocations -> {"none", "gone"}]
      /\ \A v \in Revocations : CallMap'[v] = "none" => CallMap[v] = "none"
  BY <1>3 DEF CallMap
<1>6. Access!Down
  BY <1>1, <1>4, <1>5 DEF Access!Down, SessionMap, BasisMap, CallMap
<1>7. QED
  BY <1>6 DEF Refined, Access!Next

LEMMA RefinedMain ==
  ASSUME Start \/ EnsureCertificates \/ ListenAndServe \/ ShutdownBegins \/ ServerShutdown
         \/ Deadline \/ UNCHANGED vars
  PROVE  Refined
<1>1. UNCHANGED <<pc, from, call, grants, granted, asOf, missed>>
  BY DEF Start, EnsureCertificates, ListenAndServe, ShutdownBegins, ServerShutdown, Deadline,
         vars, storeVars, requestVars, callVars
<1>2. QED
  BY <1>1, RequestsKept, CallsKept DEF Refined, PolicyVars

(* Requests, revocations, terminations, crashes and restarts, in whatever order, are steps    *)
(* that AccessPolicy allows: a session comes from a grant in force, however it is spelled, and *)
(* a revocation returns when no session rests on what it took away.                            *)
THEOREM AccessImplemented == Spec => ImplementsAccess
<1>1. Init => Access!Init
  BY DEF Init, StoreInit, Access!Init, SessionOf, BasisOf, CallOf, Pending, SettingUp
<1>2. IndInv /\ [Next]_vars => [Access!Next]_(Access!vars)
  <2> SUFFICES ASSUME IndInv, [Next]_vars PROVE [Access!Next]_(Access!vars)
    OBVIOUS
  <2>1. Refined
    BY RefinedRequest, RefinedSession, RefinedAccess, RefinedCall, RefinedDown, RefinedMain
    DEF Next, Main, Exit, Crash
  <2>2. QED
    BY <2>1 DEF Refined, Access!vars, PolicyVars, SessionMap, BasisMap, CallMap
<1>3. QED
  BY <1>1, <1>2, Inductive, PTL DEF Spec, Access!Spec, ImplementsAccess

=============================================================================
