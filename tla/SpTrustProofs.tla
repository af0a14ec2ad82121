----------------------------- MODULE SpTrustProofs -----------------------------
(* Theorems about SpTrust, for every set of handlers, every number of key  *)
(* pairs and documents, and every point at which the process stops.        *)
EXTENDS SpTrust, TLAPS

\* The steps a handler takes with the mutex held, and those with an SP.
Holding == {"load"} \union Writes
Served  == {"publish", "idpFor", "readIdp", "storeIdp", "use"}

(* A handler past spFor has a cached SP of two files that parsed, and one  *)
(* that writes has made a pair.                                            *)
HasPair ==
  /\ sp # Nobody => sp.key > 0 /\ sp.cert > 0
  /\ \A h \in Handlers : pc[h] \in Writes => pair[h] > 0
  /\ \A h \in Handlers : pc[h] \in Served => sp # Nobody

\* A document is written only after a truncation, which the bound limits.
Rewriting == idpFile = Torn => written < MaxDoc

TypeInv == TypeOK /\ HasPair /\ Rewriting

LEMMA TypeInvInit == Init => TypeInv
  <1> SUFFICES ASSUME Init PROVE TypeInv
    OBVIOUS
  <1> USE DEF Init, None, Torn, Nobody
  <1>1. /\ made \in 0 .. MaxPair /\ written \in 0 .. MaxDoc
        /\ keyFile \in Files(made) /\ certFile \in Files(made) /\ idpFile \in Files(written)
    BY TrustAssumption DEF Files
  <1>2. /\ sp \in [key : 0 .. made, cert : 0 .. made] /\ idp \in 0 .. written
        /\ pair \in [Handlers -> 0 .. made] /\ doc \in [Handlers -> 0 .. written]
    BY <1>1
  <1>3. HasPair
    BY DEF HasPair, Writes, Served
  <1>4. Rewriting
    BY DEF Rewriting
  <1> QED BY <1>1, <1>2, <1>3, <1>4 DEF TypeInv, TypeOK, Kinds, Steps, Responses

(* One step per action of spFor, idpFor, the operator and the IdP.         *)
LEMMA TypeInvStep == TypeInv /\ [Next]_vars => TypeInv'
  <1> SUFFICES ASSUME TypeInv, [Next]_vars PROVE TypeInv'
    OBVIOUS
  <1> USE TrustAssumption DEF TypeInv, TypeOK, HasPair, Rewriting, Files, Kinds, Steps, Responses, Writes, Served,
          None, Torn, Nobody, files, caches, history, Goto, Answer, AfterSP, Cache
  <1>1. ASSUME NEW h \in Handlers, Arrive(h) PROVE TypeInv'
    BY <1>1 DEF Arrive
  <1>2. ASSUME NEW h \in Handlers, SpFor(h) PROVE TypeInv'
    BY <1>2 DEF SpFor
  <1>3. ASSUME NEW h \in Handlers, LoadFails(h) PROVE TypeInv'
    BY <1>3 DEF LoadFails
  <1>4. ASSUME NEW h \in Handlers, Load(h) PROVE TypeInv'
    BY <1>4 DEF Load
  <1>5. ASSUME NEW h \in Handlers, Generate(h) PROVE TypeInv'
    BY <1>5 DEF Generate
  <1>6. ASSUME NEW h \in Handlers, WritePair(h) PROVE TypeInv'
    <2>1. CASE pc[h] = "openKey"
      BY <1>6, <2>1 DEF WritePair
    <2>2. CASE pc[h] = "writeKey"
      <3>1. keyFile' \in Files(made') /\ made' = made
        BY <1>6, <2>2 DEF WritePair
      <3>2. HasPair'
        BY <1>6, <2>2 DEF WritePair
      <3>3. UNCHANGED <<certFile, idpFile, made, written, up, free, sp, idp, pair, doc,
                        kind, resp, identity, onDisk, misread>>
        BY <1>6, <2>2 DEF WritePair
      <3>4. pc' \in [Handlers -> Steps]
        BY <1>6, <2>2 DEF WritePair
      <3> QED BY <3>1, <3>2, <3>3, <3>4
    <2>3. CASE pc[h] = "openCert"
      BY <1>6, <2>3 DEF WritePair
    <2>4. CASE pc[h] = "writeCert"
      <3>1. certFile' \in Files(made') /\ made' = made
        BY <1>6, <2>4 DEF WritePair
      <3>2. sp' \in [key : 0 .. made', cert : 0 .. made']
        BY <1>6, <2>4 DEF WritePair
      <3>3. HasPair'
        BY <1>6, <2>4 DEF WritePair
      <3> QED BY <1>6, <2>4, <3>1, <3>2, <3>3 DEF WritePair
    <2> QED BY <1>6, <2>1, <2>2, <2>3, <2>4 DEF WritePair
  <1>7. ASSUME NEW h \in Handlers, WriteFails(h) PROVE TypeInv'
    BY <1>7 DEF WriteFails
  <1>8. ASSUME NEW h \in Handlers, Publish(h) PROVE TypeInv'
    <2>1. sp.cert \in 1 .. made
      BY <1>8 DEF Publish
    <2>2. HasPair'
      BY <1>8 DEF Publish
    <2>3. identity' \subseteq 1 .. made
      <3>1. identity' = identity \union {sp.cert} /\ identity \subseteq 1 .. made
        BY <1>8 DEF Publish
      <3> QED BY ONLY <3>1, <2>1
    <2> QED BY <1>8, <2>2, <2>3 DEF Publish
  <1>9. ASSUME NEW h \in Handlers, IdpFor(h) PROVE TypeInv'
    BY <1>9 DEF IdpFor
  <1>10. ASSUME NEW h \in Handlers, ReadIdp(h) PROVE TypeInv'
    BY <1>10 DEF ReadIdp
  <1>11. ASSUME NEW h \in Handlers, StoreIdp(h) PROVE TypeInv'
    BY <1>11 DEF StoreIdp
  <1>12. ASSUME NEW h \in Handlers, Use(h) PROVE TypeInv'
    <2>1. sp.key \in 1 .. made
      BY <1>12 DEF Use
    <2>2. HasPair'
      BY <1>12 DEF Use
    <2>3. identity' \subseteq 1 .. made
      BY <1>12, <2>1 DEF Use
    <2> QED BY <1>12, <2>2, <2>3 DEF Use
  <1>13. CASE Start
    BY <1>13 DEF Start
  <1>14. CASE Crash
    <2>1. /\ sp' \in [key : 0 .. made, cert : 0 .. made] /\ idp' \in 0 .. written
          /\ pair' \in [Handlers -> 0 .. made] /\ doc' \in [Handlers -> 0 .. written]
      BY <1>14 DEF Crash, Stop
    <2>2. HasPair'
      BY <1>14 DEF Crash, Stop
    <2> QED BY <1>14, <2>1, <2>2 DEF Crash, Stop
  <1>15. CASE Provision
    <2>1. made' \in 0 .. MaxPair /\ 0 .. made \subseteq 0 .. made'
      BY <1>15 DEF Provision
    <2>2. /\ sp' \in [key : 0 .. made', cert : 0 .. made']
          /\ pair' \in [Handlers -> 0 .. made']
      BY <1>15, <2>1 DEF Provision
    <2>3. keyFile' \in Files(made') /\ certFile' \in Files(made')
      BY <1>15, <2>1 DEF Provision
    <2>4. HasPair'
      BY <1>15 DEF Provision
    <2> QED BY <1>15, <2>1, <2>2, <2>3, <2>4 DEF Provision
  <1>16. CASE TruncateIdp
    BY <1>16 DEF TruncateIdp
  <1>17. CASE WriteIdp
    <2>1. written' \in 0 .. MaxDoc /\ 0 .. written \subseteq 0 .. written'
      BY <1>17 DEF WriteIdp
    <2>2. idp' \in 0 .. written' /\ doc' \in [Handlers -> 0 .. written']
      BY <1>17, <2>1 DEF WriteIdp
    <2>3. idpFile' \in Files(written') /\ onDisk' \subseteq 1 .. written'
      BY <1>17, <2>1 DEF WriteIdp
    <2>4. HasPair'
      BY <1>17 DEF WriteIdp
    <2> QED BY <1>17, <2>1, <2>2, <2>3, <2>4 DEF WriteIdp
  <1>18. CASE UNCHANGED vars
    BY <1>18 DEF vars
  <1> QED BY <1>1, <1>2, <1>3, <1>4, <1>5, <1>6, <1>7, <1>8, <1>9, <1>10, <1>11, <1>12,
             <1>13, <1>14, <1>15, <1>16, <1>17, <1>18 DEF Next, Step, LoadStep

(* Files, caches and handlers always hold pairs and documents that exist.  *)
THEOREM TypeCorrect == Spec => []TypeOK
  <1>1. TypeInv => TypeOK
    BY DEF TypeInv
  <1> QED BY TypeInvInit, TypeInvStep, <1>1, PTL DEF Spec
-----------------------------------------------------------------------------
(* The mutex of spFor: one handler at a time reads or writes the files,    *)
(* none while the process is down, and only until an SP is cached.         *)
Locked ==
  /\ \A h \in Handlers : pc[h] \in Holding => ~free /\ sp = Nobody
  /\ \A g, h \in Handlers : pc[g] \in Holding /\ pc[h] \in Holding => g = h
  /\ ~up => /\ \A h \in Handlers : pc[h] = "idle" /\ resp[h] = "none"
            /\ sp = Nobody /\ idp = None

LockInv == TypeInv /\ Locked

LEMMA LockInit == Init => LockInv
  BY TypeInvInit DEF Init, LockInv, Locked, Holding, Writes

LEMMA LockStep == LockInv /\ [Next]_vars => LockInv'
  <1> SUFFICES ASSUME LockInv, [Next]_vars PROVE Locked'
    BY TypeInvStep DEF LockInv
  <1>a. /\ pc \in [Handlers -> Steps] /\ resp \in [Handlers -> Responses]
        /\ free \in BOOLEAN /\ up \in BOOLEAN /\ Locked
    BY DEF LockInv, TypeInv, TypeOK
  <1> USE <1>a DEF Locked, Holding, Writes, files, caches, history, Goto, Answer, AfterSP, Cache
  <1>1. ASSUME NEW h \in Handlers, Arrive(h) PROVE Locked'
    BY <1>1 DEF Arrive
  <1>2. ASSUME NEW h \in Handlers, SpFor(h) PROVE Locked'
    BY <1>2 DEF SpFor
  <1>3. ASSUME NEW h \in Handlers, LoadFails(h) PROVE Locked'
    BY <1>3 DEF LoadFails
  <1>4. ASSUME NEW h \in Handlers, Load(h) PROVE Locked'
    BY <1>4 DEF Load
  <1>5. ASSUME NEW h \in Handlers, Generate(h) PROVE Locked'
    BY <1>5 DEF Generate
  <1>6. ASSUME NEW h \in Handlers, WritePair(h) PROVE Locked'
    BY <1>6 DEF WritePair
  <1>7. ASSUME NEW h \in Handlers, WriteFails(h) PROVE Locked'
    BY <1>7 DEF WriteFails
  <1>8. ASSUME NEW h \in Handlers, Publish(h) PROVE Locked'
    BY <1>8 DEF Publish
  <1>9. ASSUME NEW h \in Handlers, IdpFor(h) PROVE Locked'
    BY <1>9 DEF IdpFor
  <1>10. ASSUME NEW h \in Handlers, ReadIdp(h) PROVE Locked'
    BY <1>10 DEF ReadIdp
  <1>11. ASSUME NEW h \in Handlers, StoreIdp(h) PROVE Locked'
    BY <1>11 DEF StoreIdp
  <1>12. ASSUME NEW h \in Handlers, Use(h) PROVE Locked'
    BY <1>12 DEF Use
  <1>13. CASE Start \/ Provision \/ TruncateIdp \/ WriteIdp \/ UNCHANGED vars
    BY <1>13 DEF Start, Provision, TruncateIdp, WriteIdp, vars
  <1>14. CASE Crash
    BY <1>14 DEF Crash, Stop
  <1> QED BY <1>1, <1>2, <1>3, <1>4, <1>5, <1>6, <1>7, <1>8, <1>9, <1>10, <1>11, <1>12,
             <1>13, <1>14 DEF Next, Step, LoadStep

-----------------------------------------------------------------------------
(* What a stop may leave on disk.  The key is complete before the          *)
(* certificate is created, and until then nothing has gone out: so a       *)
(* complete certificate is the key's, and an identity is its pair.         *)
FileOrder ==
  /\ certFile > 0 => keyFile = certFile
  /\ keyFile \in {None, Torn} => certFile = None
  /\ \A h \in Handlers :
       /\ pc[h] \in {"openKey", "writeKey", "openCert"} => certFile = None
       /\ pc[h] \in {"openCert", "writeCert"} => keyFile = pair[h]
       /\ pc[h] = "writeCert" => certFile = Torn

Installed ==
  /\ sp # Nobody => sp.key = keyFile /\ sp.cert = certFile /\ certFile > 0
  /\ \A p \in identity : p = certFile

(* A parse error is answered of a torn certificate, which then stays: no   *)
(* handler is writing, and none can start without a failed read.           *)
Blocked ==
  \A h \in Handlers :
    resp[h] = "parseError" =>
      certFile = Torn /\ keyFile > 0 /\ \A g \in Handlers : pc[g] \notin Writes

DiskInv == LockInv /\ (~misread => FileOrder /\ Installed /\ Blocked)

LEMMA DiskInit == Init => DiskInv
  <1> SUFFICES ASSUME Init PROVE FileOrder /\ Installed /\ Blocked
    BY LockInit DEF DiskInv
  <1> QED BY DEF Init, FileOrder, Installed, Blocked, None, Torn

(* A step that leaves the files, the pairs and the cached SP alone, starts *)
(* no write, answers no parse error and lets out only the cached pair.     *)
LEMMA DiskFrame ==
  ASSUME DiskInv, LockInv',
         UNCHANGED <<keyFile, certFile, misread>>,
         sp' \in {sp, Nobody},
         \A h \in Handlers :
           pc'[h] \in Writes => pc[h] = pc'[h] /\ pair[h] = pair'[h],
         \A h \in Handlers : resp'[h] = "parseError" => resp[h] = "parseError",
         identity' \subseteq identity \union {sp.key, sp.cert},
         identity' = identity \/ sp # Nobody
  PROVE  DiskInv'
  <1> SUFFICES ASSUME ~misread PROVE (FileOrder /\ Installed /\ Blocked)'
    BY DEF DiskInv
  <1> USE DEF DiskInv
  <1>1. FileOrder'
    BY DEF FileOrder, Writes
  <1>2. Installed'
    BY DEF Installed, FileOrder
  <1>3. Blocked'
    BY DEF Blocked
  <1> QED BY <1>1, <1>2, <1>3

LEMMA DiskStep == DiskInv /\ [Next]_vars => DiskInv'
  <1> SUFFICES ASSUME DiskInv, [Next]_vars PROVE DiskInv'
    OBVIOUS
  <1>a. LockInv'
    BY LockStep DEF DiskInv
  <1>b. /\ pc \in [Handlers -> Steps] /\ resp \in [Handlers -> Responses]
        /\ made \in Nat /\ pair \in [Handlers -> 0 .. made]
        /\ keyFile \in Files(made) /\ certFile \in Files(made)
        /\ misread \in BOOLEAN
    BY TrustAssumption DEF DiskInv, LockInv, TypeInv, TypeOK
  <1>c. Locked /\ HasPair
    BY DEF DiskInv, LockInv, TypeInv
  <1> USE <1>b DEF files, caches, history, Goto, Answer, AfterSP, Cache
  <1>1. ASSUME NEW h \in Handlers, LoadFails(h) PROVE DiskInv'
    <2> SUFFICES ASSUME ~misread' PROVE (FileOrder /\ Installed /\ Blocked)'
      BY <1>a DEF DiskInv
    <2>1. /\ ~misread /\ pc[h] = "load"
          /\ UNCHANGED <<keyFile, certFile, sp, identity>>
          /\ Torn \in {keyFile, certFile} /\ None \notin {keyFile, certFile}
          /\ pc'[h] = "idle" /\ resp'[h] = "parseError"
          /\ \A g \in Handlers : g # h => pc'[g] = pc[g] /\ pair'[g] = pair[g]
                                          /\ resp'[g] = resp[g]
      BY <1>1 DEF LoadFails
    <2>2. FileOrder /\ Installed /\ Blocked
      BY <2>1 DEF DiskInv
    <2>3. certFile = Torn /\ keyFile > 0
      BY <2>1, <2>2 DEF FileOrder, Files, None, Torn
    <2>4. \A g \in Handlers : pc'[g] \notin Writes
      BY <2>1, <1>c DEF Locked, Holding, Writes
    <2>5. FileOrder'
      BY <2>1, <2>2, <2>4 DEF FileOrder, Writes
    <2> QED BY <2>1, <2>2, <2>3, <2>4, <2>5 DEF Installed, Blocked
  <1>2. ASSUME NEW h \in Handlers, Load(h) PROVE DiskInv'
    <2> SUFFICES ASSUME ~misread' PROVE (FileOrder /\ Installed /\ Blocked)'
      BY <1>a DEF DiskInv
    <2>1. /\ ~misread /\ pc[h] = "load" /\ keyFile > 0 /\ certFile > 0
          /\ UNCHANGED <<keyFile, certFile, identity, pair, resp>>
          /\ sp' = [key |-> keyFile, cert |-> certFile]
          /\ pc'[h] \in {"publish", "idpFor"}
          /\ \A g \in Handlers : g # h => pc'[g] = pc[g]
      BY <1>2 DEF Load
    <2>2. FileOrder /\ Installed /\ Blocked
      BY <2>1 DEF DiskInv
    <2>3. FileOrder'
      BY <2>1, <2>2 DEF FileOrder
    <2>4. Installed'
      BY <2>1, <2>2 DEF Installed
    <2>5. Blocked'
      BY <2>1, <2>2 DEF Blocked, Writes
    <2> QED BY <2>3, <2>4, <2>5
  <1>3. ASSUME NEW h \in Handlers, Generate(h) PROVE DiskInv'
    <2> SUFFICES ASSUME ~misread' PROVE (FileOrder /\ Installed /\ Blocked)'
      BY <1>a DEF DiskInv
    <2>1. /\ ~misread /\ None \in {keyFile, certFile} /\ pc[h] = "load"
          /\ UNCHANGED <<keyFile, certFile, sp, identity, resp>>
          /\ pc'[h] = "openKey"
          /\ \A g \in Handlers : g # h => pc'[g] = pc[g] /\ pair'[g] = pair[g]
      BY <1>3 DEF Generate
    <2>2. FileOrder /\ Installed /\ Blocked
      BY <2>1 DEF DiskInv
    <2>3. certFile = None
      BY <2>1, <2>2 DEF FileOrder
    <2>4. FileOrder'
      BY <2>1, <2>2, <2>3 DEF FileOrder
    <2>5. Blocked'
      BY <2>1, <2>2, <2>3 DEF Blocked, None, Torn
    <2> QED BY <2>1, <2>2, <2>4, <2>5 DEF Installed
  <1>4. ASSUME NEW h \in Handlers, WritePair(h) PROVE DiskInv'
    <2> SUFFICES ASSUME ~misread' PROVE (FileOrder /\ Installed /\ Blocked)'
      BY <1>a DEF DiskInv
    <2>1. /\ ~misread /\ UNCHANGED <<identity, pair, resp>>
          /\ pc[h] \in Writes
          /\ \A g \in Handlers : g # h => pc'[g] = pc[g] /\ pc[g] \notin Writes
      BY <1>4, <1>c DEF WritePair, Writes, Locked, Holding
    <2>2. FileOrder /\ Installed /\ Blocked
      BY <2>1 DEF DiskInv
    <2>3. \A g \in Handlers : resp[g] # "parseError"
      BY <2>1, <2>2 DEF Blocked
    <2>4. Blocked'
      BY <2>1, <2>3 DEF Blocked
    <2>5. sp = Nobody /\ pair[h] > 0 /\ pair[h] \in Nat
      BY <2>1, <1>c DEF Locked, Holding, HasPair
    <2>6. \A g \in Handlers : g # h => pc'[g] \notin Writes
      BY <2>1
    <2>8. identity = {}
      <3>1. ASSUME NEW p \in identity PROVE FALSE
        <4>1. p > 0 /\ p = certFile
          BY <2>2 DEF Installed, DiskInv, LockInv, TypeInv, TypeOK
        <4> QED BY <4>1, <2>1, <2>2 DEF FileOrder, None, Torn, Writes
      <3> QED BY <3>1
    <2>9. CASE pc[h] = "openKey"
      <3>1. keyFile' = Torn /\ pc'[h] = "writeKey" /\ UNCHANGED <<certFile, sp>>
        BY <1>4, <2>9 DEF WritePair
      <3>2. FileOrder'
        BY <3>1, <2>1, <2>2, <2>6, <2>9 DEF FileOrder, None, Torn, Writes
      <3> QED BY <3>1, <3>2, <2>1, <2>4, <2>5, <2>8 DEF Installed
    <2>10. CASE pc[h] = "writeKey"
      <3>1. keyFile' = pair[h] /\ pc'[h] = "openCert" /\ UNCHANGED <<certFile, sp>>
        BY <1>4, <2>10 DEF WritePair
      <3>2. FileOrder'
        BY <3>1, <2>1, <2>2, <2>5, <2>6, <2>10 DEF FileOrder, None, Torn, Writes
      <3> QED BY <3>1, <3>2, <2>1, <2>4, <2>5, <2>8 DEF Installed
    <2>11. CASE pc[h] = "openCert"
      <3>1. certFile' = Torn /\ pc'[h] = "writeCert" /\ UNCHANGED <<keyFile, sp>>
        BY <1>4, <2>11 DEF WritePair
      <3>2. FileOrder'
        BY <3>1, <2>1, <2>2, <2>5, <2>6, <2>11 DEF FileOrder, None, Torn, Writes
      <3> QED BY <3>1, <3>2, <2>1, <2>4, <2>5, <2>8 DEF Installed
    <2>12. CASE pc[h] = "writeCert"
      <3>1. /\ certFile' = pair[h] /\ UNCHANGED keyFile
            /\ sp' = [key |-> pair[h], cert |-> pair[h]]
            /\ pc'[h] \in {"publish", "idpFor"}
        BY <1>4, <2>12 DEF WritePair
      <3>2. FileOrder'
        BY <3>1, <2>1, <2>2, <2>5, <2>6, <2>12 DEF FileOrder, None, Torn, Writes
      <3>3. Installed'
        BY <3>1, <2>1, <2>2, <2>5, <2>8, <2>12 DEF Installed, FileOrder
      <3> QED BY <3>2, <3>3, <2>4
    <2> QED BY <2>1, <2>9, <2>10, <2>11, <2>12 DEF Writes
  <1>5. CASE Provision
    <2> SUFFICES ASSUME ~misread' PROVE (FileOrder /\ Installed /\ Blocked)'
      BY <1>a DEF DiskInv
    <2>1. /\ ~up /\ keyFile' = made + 1 /\ certFile' = made + 1 /\ identity' = {}
          /\ UNCHANGED <<sp, pc, resp>>
      BY <1>5 DEF Provision
    <2>2. sp = Nobody /\ \A g \in Handlers : pc[g] = "idle" /\ resp[g] = "none"
      BY <2>1, <1>c DEF Locked
    <2> QED BY <2>1, <2>2 DEF FileOrder, Installed, Blocked, None, Torn
  <1>6. ASSUME NEW h \in Handlers, Arrive(h) \/ SpFor(h) \/ WriteFails(h) \/ IdpFor(h)
                                    \/ ReadIdp(h) \/ StoreIdp(h)
        PROVE  DiskInv'
    <2>1. /\ UNCHANGED <<keyFile, certFile, misread, sp, identity>>
          /\ \A g \in Handlers :
               /\ pc'[g] \in Writes => pc[g] = pc'[g] /\ pair[g] = pair'[g]
               /\ resp'[g] = "parseError" => resp[g] = "parseError"
      BY <1>6 DEF Arrive, SpFor, WriteFails, IdpFor, ReadIdp, StoreIdp, Writes
    <2> QED BY <2>1, <1>a, DiskFrame
  <1>7. ASSUME NEW h \in Handlers, Publish(h) \/ Use(h) PROVE DiskInv'
    <2>1. /\ UNCHANGED <<keyFile, certFile, misread, sp>>
          /\ \A g \in Handlers :
               /\ pc'[g] \in Writes => pc[g] = pc'[g] /\ pair[g] = pair'[g]
               /\ resp'[g] = "parseError" => resp[g] = "parseError"
          /\ pc[h] \in Served
      BY <1>7 DEF Publish, Use, Writes, Served
    <2>2. identity' \subseteq identity \union {sp.key, sp.cert}
      BY <1>7 DEF Publish, Use
    <2>3. sp # Nobody
      BY <2>1, <1>c DEF HasPair
    <2> QED BY <2>1, <2>2, <2>3, <1>a, DiskFrame
  <1>8. CASE Start \/ Crash \/ TruncateIdp \/ WriteIdp \/ UNCHANGED vars
    <2>1. /\ UNCHANGED <<keyFile, certFile, misread, identity>>
          /\ sp' \in {sp, Nobody}
          /\ \A g \in Handlers :
               /\ pc'[g] \in Writes => pc[g] = pc'[g] /\ pair[g] = pair'[g]
               /\ resp'[g] = "parseError" => resp[g] = "parseError"
      BY <1>8 DEF Start, Crash, Stop, TruncateIdp, WriteIdp, vars, Writes
    <2> QED BY <2>1, <1>a, DiskFrame
  <1> QED BY <1>1, <1>2, <1>3, <1>4, <1>5, <1>6, <1>7, <1>8 DEF Next, Step, LoadStep

(* LoadOrCreateSPKeyPair: key and certificate belong together, wherever    *)
(* the process stops between the four file operations.                     *)
THEOREM PairTheorem == Spec => []PairMatches
  <1>1. DiskInv => PairMatches
    BY DEF DiskInv, FileOrder, Installed, PairMatches, Nobody
  <1> QED BY DiskInit, DiskStep, <1>1, PTL DEF Spec

(* metadata and login: one pair goes out per tenant, over all restarts,    *)
(* until the administrator installs another.                               *)
THEOREM IdentityTheorem == Spec => []OneIdentity
  <1>1. DiskInv => OneIdentity
    BY DEF DiskInv, Installed, OneIdentity
  <1> QED BY DiskInit, DiskStep, <1>1, PTL DEF Spec

(* LoadOrCreateSPKeyPair: of all a stop can leave on disk, only a torn     *)
(* certificate keeps the service provider from coming up.                  *)
THEOREM BlockedTheorem == Spec => []OnlyTornCertBlocks
  <1>1. DiskInv => OnlyTornCertBlocks
    BY DEF DiskInv, Blocked, OnlyTornCertBlocks
  <1> QED BY DiskInit, DiskStep, <1>1, PTL DEF Spec

-----------------------------------------------------------------------------
(* A document read or cached was on disk since the process started, and so *)
(* is the one a read would find now.                                       *)
SinceStart ==
  /\ \A h \in Handlers : pc[h] \in {"storeIdp", "use"} => doc[h] \in onDisk
  /\ idp # None => idp \in onDisk
  /\ up /\ idpFile > 0 => idpFile \in onDisk
  /\ \A h \in Handlers : pc[h] # "idle" => up

MetadataInv == LockInv /\ SinceStart

LEMMA MetadataInit == Init => MetadataInv
  BY LockInit DEF Init, MetadataInv, SinceStart

LEMMA MetadataStep == MetadataInv /\ [Next]_vars => MetadataInv'
  <1> SUFFICES ASSUME MetadataInv, [Next]_vars PROVE SinceStart'
    BY LockStep DEF MetadataInv
  <1>a. /\ pc \in [Handlers -> Steps] /\ doc \in [Handlers -> 0 .. written]
        /\ written \in Nat /\ idpFile \in Files(written) /\ up \in BOOLEAN
        /\ Locked /\ SinceStart
    BY TrustAssumption DEF MetadataInv, LockInv, TypeInv, TypeOK
  <1> USE <1>a DEF files, caches, history, Goto, Answer, AfterSP, Cache
  <1>1. ASSUME NEW h \in Handlers, IdpFor(h) PROVE SinceStart'
    BY <1>1 DEF IdpFor, SinceStart
  <1>2. ASSUME NEW h \in Handlers, ReadIdp(h) PROVE SinceStart'
    BY <1>2 DEF ReadIdp, SinceStart
  <1>3. ASSUME NEW h \in Handlers, StoreIdp(h) PROVE SinceStart'
    BY <1>3 DEF StoreIdp, SinceStart
  <1>4. ASSUME NEW h \in Handlers,
               Arrive(h) \/ SpFor(h) \/ LoadStep(h) \/ Publish(h) \/ Use(h)
        PROVE  SinceStart'
    <2>1. UNCHANGED <<idpFile, idp, onDisk, up>>
      BY <1>4 DEF Arrive, SpFor, LoadStep, LoadFails, Load, Generate, WritePair, WriteFails,
                  Publish, Use
    <2>2. \A g \in Handlers : pc'[g] \in {"storeIdp", "use"} => pc[g] = pc'[g] /\ doc[g] = doc'[g]
      BY <1>4 DEF Arrive, SpFor, LoadStep, LoadFails, Load, Generate, WritePair, WriteFails,
                  Publish, Use
    <2>3. \A g \in Handlers : pc'[g] # "idle" => pc[g] # "idle" \/ up
      BY <1>4 DEF Arrive, SpFor, LoadStep, LoadFails, Load, Generate, WritePair, WriteFails,
                  Publish, Use
    <2> QED BY <2>1, <2>2, <2>3 DEF SinceStart
  <1>5. CASE Start
    BY <1>5 DEF Start, SinceStart, Locked, None, Torn, Files
  <1>6. CASE Crash
    BY <1>6 DEF Crash, Stop, SinceStart
  <1>7. CASE Provision \/ UNCHANGED vars
    BY <1>7 DEF Provision, vars, SinceStart
  <1>8. CASE TruncateIdp
    BY <1>8 DEF TruncateIdp, SinceStart, Torn
  <1>9. CASE WriteIdp
    <2>1. CASE up
      BY <1>9, <2>1 DEF WriteIdp, SinceStart
    <2>2. CASE ~up
      BY <1>9, <2>2 DEF WriteIdp, SinceStart, Locked
    <2> QED BY <2>1, <2>2
  <1> QED BY <1>1, <1>2, <1>3, <1>4, <1>5, <1>6, <1>7, <1>8, <1>9 DEF Next, Step

(* idpFor: a handler uses only a document that was on disk, complete, at   *)
(* some time since the process started.                                    *)
THEOREM MetadataTheorem == Spec => []MetadataSinceStart
  <1>1. MetadataInv => MetadataSinceStart
    BY DEF MetadataInv, SinceStart, MetadataSinceStart
  <1> QED BY MetadataInit, MetadataStep, <1>1, PTL DEF Spec
-----------------------------------------------------------------------------
(* Towards AllAnswered.  The mutex is held by a handler that is reading or *)
(* writing the files, and by nobody else: no path of spFor keeps it.       *)
HeldByHolder == ~free => \E h \in Handlers : pc[h] \in Holding

HeldInv == LockInv /\ HeldByHolder

LEMMA HeldInit == Init => HeldInv
  BY LockInit DEF Init, HeldInv, HeldByHolder

LEMMA HeldStep == HeldInv /\ [Next]_vars => HeldInv'
  <1> SUFFICES ASSUME HeldInv, [Next]_vars PROVE HeldByHolder'
    BY LockStep DEF HeldInv
  <1>a. /\ pc \in [Handlers -> Steps] /\ free \in BOOLEAN /\ Locked /\ HeldByHolder
    BY DEF HeldInv, LockInv, TypeInv, TypeOK
  <1> USE <1>a DEF HeldByHolder, Holding, Writes, files, caches, history, Goto, Answer, AfterSP, Cache
  <1>1. ASSUME NEW h \in Handlers, Arrive(h) PROVE HeldByHolder'
    BY <1>1 DEF Arrive
  <1>2. ASSUME NEW h \in Handlers, SpFor(h) PROVE HeldByHolder'
    BY <1>2 DEF SpFor
  <1>3. ASSUME NEW h \in Handlers, LoadFails(h) \/ Load(h) \/ WriteFails(h) PROVE HeldByHolder'
    BY <1>3 DEF LoadFails, Load, WriteFails
  <1>4. ASSUME NEW h \in Handlers, Generate(h) PROVE HeldByHolder'
    BY <1>4 DEF Generate
  <1>5. ASSUME NEW h \in Handlers, WritePair(h) PROVE HeldByHolder'
    BY <1>5 DEF WritePair
  <1>6. ASSUME NEW h \in Handlers, Publish(h) \/ Use(h) PROVE HeldByHolder'
    BY <1>6 DEF Publish, Use
  <1>7. ASSUME NEW h \in Handlers, IdpFor(h) \/ ReadIdp(h) \/ StoreIdp(h) PROVE HeldByHolder'
    BY <1>7 DEF IdpFor, ReadIdp, StoreIdp
  <1>8. CASE Start \/ Provision \/ TruncateIdp \/ WriteIdp \/ UNCHANGED vars
    BY <1>8 DEF Start, Provision, TruncateIdp, WriteIdp, vars
  <1>9. CASE Crash
    BY <1>9 DEF Crash, Stop
  <1> QED BY <1>1, <1>2, <1>3, <1>4, <1>5, <1>6, <1>7, <1>8, <1>9 DEF Next, Step, LoadStep

\* The steps that wait for the mutex.
Waiting == {"spFor", "idpFor", "storeIdp"}

\* While a request is not answered, some handler need not wait.
SomeoneMoves ==
  \A h \in Handlers : pc[h] # "idle" =>
    \E g \in Handlers : pc[g] # "idle" /\ (pc[g] \in Waiting => free)

(* Handlers never all wait for the mutex: it is free, or its holder is at  *)
(* a file operation, which ends in a write, an answer or an error.         *)
THEOREM MutexTheorem == Spec => []SomeoneMoves
  <1>1. HeldInv => SomeoneMoves
    BY DEF HeldInv, HeldByHolder, SomeoneMoves, Waiting, Holding, Writes
  <1> QED BY HeldInit, HeldStep, <1>1, PTL DEF Spec

\* The most steps that a handler at step s still has to take.
Remaining(s) ==
  IF s = "idle" THEN 0 ELSE IF s \in {"use", "publish"} THEN 1 ELSE IF s = "storeIdp" THEN 2
  ELSE IF s = "readIdp" THEN 3 ELSE IF s = "idpFor" THEN 4 ELSE IF s = "writeCert" THEN 5
  ELSE IF s = "openCert" THEN 6 ELSE IF s = "writeKey" THEN 7 ELSE IF s = "openKey" THEN 8
  ELSE IF s = "load" THEN 9 ELSE 10

\* A step of a handler brings it nearer to its answer, whichever way it goes,
\* and no step of another, or of the world outside, takes it further away.
Nearer ==
  \A h \in Handlers :
    /\ Step(h) => Remaining(pc'[h]) < Remaining(pc[h])
    /\ pc[h] # "idle" => Remaining(pc'[h]) <= Remaining(pc[h])

(* A request takes at most ten steps of its handler: nothing is retried,   *)
(* and no cache that another handler fills or a stop empties sends it      *)
(* back.  With MutexTheorem, and a scheduler that lets a handler run, it   *)
(* is answered (AllAnswered).                                              *)
THEOREM NearerTheorem == Spec => [][Nearer]_vars
  <1>1. ASSUME TypeInv, Next
        PROVE  Nearer
    <2>a. pc \in [Handlers -> Steps]
      BY <1>1 DEF TypeInv, TypeOK
    <2> USE <2>a DEF Goto, Answer, AfterSP, Cache
    <2>1. ASSUME NEW h \in Handlers, Step(h)
          PROVE  /\ Remaining(pc'[h]) < Remaining(pc[h])
                 /\ \A g \in Handlers \ {h} : pc'[g] = pc[g]
      <3>1. CASE SpFor(h)
        <4>1. pc[h] = "spFor" /\ pc' \in {[pc EXCEPT ![h] = s] : s \in {"load", "publish", "idpFor"}}
          BY <3>1 DEF SpFor
        <4> QED BY <4>1 DEF Remaining
      <3>2. CASE LoadFails(h) \/ Load(h) \/ WriteFails(h)
        BY <3>2 DEF LoadFails, Load, WriteFails, Remaining
      <3>3. CASE Generate(h)
        BY <3>3 DEF Generate, Remaining
      <3>4. CASE WritePair(h)
        BY <3>4 DEF WritePair, Remaining
      <3>5. CASE Publish(h) \/ Use(h)
        BY <3>5 DEF Publish, Use, Remaining
      <3>6. CASE IdpFor(h) \/ ReadIdp(h) \/ StoreIdp(h)
        BY <3>6 DEF IdpFor, ReadIdp, StoreIdp, Remaining
      <3> QED BY <2>1, <3>1, <3>2, <3>3, <3>4, <3>5, <3>6 DEF Step, LoadStep
    <2>2. ASSUME NEW h \in Handlers, pc[h] # "idle"
          PROVE  Remaining(pc'[h]) <= Remaining(pc[h])
      <3>1. ASSUME NEW g \in Handlers, Step(g)
            PROVE  Remaining(pc'[h]) <= Remaining(pc[h])
        BY <2>1, <3>1 DEF Remaining
      <3>2. ASSUME NEW g \in Handlers, Arrive(g)
            PROVE  Remaining(pc'[h]) <= Remaining(pc[h])
        BY <2>2, <3>2 DEF Arrive, Remaining
      <3>3. CASE Start \/ Provision \/ TruncateIdp \/ WriteIdp
        BY <3>3 DEF Start, Provision, TruncateIdp, WriteIdp, Remaining
      <3>4. CASE Crash
        BY <3>4 DEF Crash, Stop, Remaining
      <3> QED BY <1>1, <3>1, <3>2, <3>3, <3>4 DEF Next
    <2> QED BY <2>1, <2>2 DEF Nearer
  <1>2. TypeInv /\ [Next]_vars => [Nearer]_vars
    BY <1>1
  <1> QED BY TypeInvInit, TypeInvStep, <1>2, PTL DEF Spec
=============================================================================
