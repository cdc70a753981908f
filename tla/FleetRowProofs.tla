-------------------------- MODULE FleetRowProofs --------------------------
(***************************************************************************)
(* Theorems about Fleet that relate one enrollment to another, or an agent *)
(* to its connection: an accepted check-in is recorded, members of live    *)
(* workspaces are known and stay where they are, and only a silent network *)
(* leaves an agent hanging.  They rest on IInv of FleetProofs and          *)
(* strengthen it to FleetInv.                                              *)
(***************************************************************************)
EXTENDS FleetProofs

-----------------------------------------------------------------------------
(* Rows and certificates, taken apart for the leaves below.                *)

\* A certificate has a number, a key and a workspace.
LEMMA CertFields ==
  ASSUME NEW cert \in Cert
  PROVE  cert.no \in Nat /\ cert.key \in Keys /\ cert.ws \in Workspaces /\ cert.by \in ServerKeys
  BY DEF Cert

\* A row that is there has a certificate.
LEMMA RowFields ==
  ASSUME TypeOK, NEW k \in Keys, devices[k] # None
  PROVE  devices[k] \in Row /\ devices[k].cert \in Cert /\ devices[k].checked \in BOOLEAN
<1>1. devices[k] \in Row
  BY TableTypes
<1> QED BY <1>1 DEF Row

\* A task that carries a certificate carries one for its key.
LEMMA NumberedTask ==
  ASSUME IInv, NEW s \in Sessions, sess[s].st \in Numbered
  PROVE  /\ sess[s].cert \in Cert /\ sess[s].key \in Keys
         /\ sess[s].cert.key = sess[s].key
  BY TaskTypes DEF IInv, TaskSound, Numbered

-----------------------------------------------------------------------------
(* Accepted check-ins.                                                     *)

\* What a step may do without disturbing RecordInv: rows stay or go, and a
\* task goes on with the certificate it has, or ends.
TaskEases(t) ==
  sess'[t].st \in Numbered =>
    /\ sess[t].st \in Numbered /\ sess'[t].key = sess[t].key /\ sess'[t].cert = sess[t].cert
    /\ sess'[t].st = "enroll_found" => sess[t].st = "enroll_found"
    /\ sess'[t].st \in {"checkin_recorded", "checkin_answered"} =>
         sess[t].st \in {"checkin_recorded", "checkin_answered"}

RowsEase == \A k \in Keys : devices'[k] # None => devices'[k] = devices[k]

\* Such a step keeps RecordInv.
LEMMA EasyStepRecords ==
  ASSUME RecordInv, \A t \in Sessions : TaskEases(t), RowsEase, issued' = issued, IInv
  PROVE  RecordInv'
<1>1. CertificatesAreFresh'
  <2>1. \A k \in Keys : devices'[k] # None => devices'[k].cert.no <= issued'
    BY DEF RecordInv, CertificatesAreFresh, RowsEase
  <2>2. \A s \in Sessions : sess'[s].st \in Numbered => sess'[s].cert.no <= issued'
    BY DEF RecordInv, CertificatesAreFresh, TaskEases
  <2>3. ASSUME NEW s \in Sessions, sess'[s].st = "enroll_found"
        PROVE  /\ sess[s].st = "enroll_found" /\ sess'[s].cert = sess[s].cert
               /\ \A k \in Keys : devices'[k] # None => devices'[k].cert.no # sess'[s].cert.no
               /\ \A t \in Sessions : t # s /\ sess'[t].st \in Numbered =>
                                      sess'[t].cert.no # sess'[s].cert.no
    <3>1. sess[s].st = "enroll_found" /\ sess'[s].cert = sess[s].cert
      BY <2>3 DEF TaskEases, Numbered, Issued
    <3>2. \A k \in Keys : devices'[k] # None => devices'[k].cert.no # sess'[s].cert.no
      BY <3>1 DEF RecordInv, CertificatesAreFresh, RowsEase
    <3>3. \A t \in Sessions : t # s /\ sess'[t].st \in Numbered =>
                              sess'[t].cert.no # sess'[s].cert.no
      BY <3>1 DEF RecordInv, CertificatesAreFresh, TaskEases
    <3> QED BY <3>1, <3>2, <3>3
  <2> QED BY <2>1, <2>2, <2>3 DEF CertificatesAreFresh
<1>2. ASSUME NEW s \in Sessions PROVE Recorded(s)'
  <2> SUFFICES ASSUME sess'[s].st \in {"checkin_recorded", "checkin_answered"},
                      devices'[sess'[s].key] # None,
                      devices'[sess'[s].key].cert = sess'[s].cert
               PROVE  devices'[sess'[s].key].checked
    BY DEF Recorded
  <2>1. /\ sess[s].st \in {"checkin_recorded", "checkin_answered"} /\ sess[s].st \in Numbered
        /\ sess'[s].key = sess[s].key /\ sess'[s].cert = sess[s].cert
    BY DEF TaskEases, Numbered, Looked
  <2>2. sess[s].key \in Keys
    BY <2>1, NumberedTask
  <2>3. devices'[sess[s].key] = devices[sess[s].key]
    BY <2>1, <2>2 DEF RowsEase
  <2> QED BY <2>1, <2>3 DEF RecordInv, Recorded
<1> QED BY <1>1, <1>2 DEF RecordInv

\* A step in which one task takes another place, and nothing else happens to
\* the tasks.
OneTask(s) == \A t \in Sessions : t # s => sess'[t] = sess[t]

\* The tasks that take no step ease.
LEMMA OthersEase ==
  ASSUME NEW s \in Sessions, OneTask(s), TaskEases(s)
  PROVE  \A t \in Sessions : TaskEases(t)
  BY DEF OneTask, TaskEases

\* A task that fails eases.
LEMMA FailedEases ==
  ASSUME IInv, NEW s \in Sessions, sess' = [sess EXCEPT ![s] = Failed(s)]
  PROVE  \A t \in Sessions : TaskEases(t)
<1>1. /\ sess'[s] = Failed(s)
      /\ \A u \in Sessions : u # s => sess'[u] = sess[u]
  BY DEF IInv, TypeOK
<1>2. sess'[s].st \in {"free", "failed"}
  BY <1>1, FailedTask DEF IInv
<1>3. TaskEases(s)
  BY <1>2 DEF TaskEases, Numbered, Issued, Looked
<1> QED BY <1>1, <1>3, OthersEase DEF OneTask

\* A step that leaves the registry and the tasks alone eases.
LEMMA NothingEases ==
  ASSUME UNCHANGED <<devices, sess, issued>>, IInv, RecordInv
  PROVE  RecordInv'
  BY EasyStepRecords DEF TaskEases, RowsEase

\* Issuing a certificate: its number is above all others.
LEMMA RecordEnrollFind ==
  ASSUME IInv, RecordInv, NEW s \in Sessions, EnrollFind(s)
  PROVE  RecordInv'
<1>1. sess[s].st = "enroll_req" /\ UNCHANGED devices
  BY DEF EnrollFind, db
<1>2. CASE Live(sess[s].ws)
  <2>1. /\ sess'[s].st = "enroll_found" /\ sess'[s].cert = NewCert(s)
        /\ OneTask(s) /\ issued' = issued + 1
    <3>1. sess' = [sess EXCEPT ![s] = [sess[s] EXCEPT !.st = "enroll_found", !.cert = NewCert(s)]]
          /\ issued' = issued + 1
      BY <1>2 DEF EnrollFind
    <3>2. sess \in [Sessions -> Task] /\ sess[s] \in Task
      BY TaskTypes DEF IInv, TypeOK
    <3>3. \A u \in Sessions : u # s => sess'[u] = sess[u]
      BY <3>1, <3>2
    <3>4. sess'[s] = [sess[s] EXCEPT !.st = "enroll_found", !.cert = NewCert(s)]
      BY <3>1, <3>2
    <3> QED BY <3>1, <3>2, <3>3, <3>4 DEF OneTask, Task
  <2>2. NewCert(s).no = issued + 1 /\ issued \in Nat
    BY <1>1, NewCertIsCert, TableTypes DEF IInv
  <2>3. \A k \in Keys : devices[k] # None =>
          devices[k].cert.no \in Nat /\ devices[k].cert.no <= issued
    BY RowFields, CertFields DEF IInv, RecordInv, CertificatesAreFresh
  <2>4. \A t \in Sessions : sess[t].st \in Numbered =>
          sess[t].cert.no \in Nat /\ sess[t].cert.no <= issued
    BY NumberedTask, CertFields DEF RecordInv, CertificatesAreFresh
  <2>5. \A k \in Keys : devices'[k] # None => devices'[k].cert.no <= issued'
    BY <1>1, <2>1, <2>2, <2>3
  <2>6. \A t \in Sessions : sess'[t].st \in Numbered => sess'[t].cert.no <= issued'
    BY <2>1, <2>2, <2>4 DEF OneTask
  <2>7. ASSUME NEW t \in Sessions, sess'[t].st = "enroll_found"
        PROVE  /\ \A k \in Keys : devices'[k] # None => devices'[k].cert.no # sess'[t].cert.no
               /\ \A u \in Sessions : u # t /\ sess'[u].st \in Numbered =>
                                      sess'[u].cert.no # sess'[t].cert.no
    <3>1. CASE t = s
      <4>1. \A k \in Keys : devices'[k] # None => devices'[k].cert.no # sess'[s].cert.no
        BY <1>1, <2>1, <2>2, <2>3
      <4>2. \A u \in Sessions : u # s /\ sess'[u].st \in Numbered =>
                                sess'[u].cert.no # sess'[s].cert.no
        BY <2>1, <2>2, <2>4 DEF OneTask
      <4> QED BY <3>1, <4>1, <4>2
    <3>2. CASE t # s
      <4>1. sess'[t] = sess[t] /\ sess[t].st = "enroll_found" /\ sess[t].st \in Numbered
        BY <2>1, <2>7, <3>2 DEF OneTask, Numbered, Issued
      <4>2. sess[t].cert.no # issued + 1
        BY <2>2, <2>4, <4>1
      <4>3. \A k \in Keys : devices'[k] # None => devices'[k].cert.no # sess'[t].cert.no
        BY <1>1, <4>1 DEF RecordInv, CertificatesAreFresh
      <4>4. ASSUME NEW u \in Sessions, u # t, sess'[u].st \in Numbered
            PROVE  sess'[u].cert.no # sess'[t].cert.no
        <5>1. CASE u = s
          BY <2>1, <2>2, <4>1, <4>2, <5>1
        <5>2. CASE u # s
          BY <2>1, <4>1, <4>4, <5>2 DEF OneTask, RecordInv, CertificatesAreFresh
        <5> QED BY <5>1, <5>2
      <4> QED BY <4>3, <4>4
    <3> QED BY <3>1, <3>2
  <2>8. ASSUME NEW t \in Sessions PROVE Recorded(t)'
    <3>1. CASE t = s
      BY <2>1, <3>1 DEF Recorded
    <3>2. CASE t # s
      BY <1>1, <2>1, <3>2 DEF Recorded, RecordInv, OneTask
    <3> QED BY <3>1, <3>2
  <2> QED BY <2>5, <2>6, <2>7, <2>8 DEF RecordInv, CertificatesAreFresh
<1>3. CASE ~Live(sess[s].ws)
  <2>1. sess' = [sess EXCEPT ![s] = Failed(s)] /\ issued' = issued
    BY <1>3 DEF EnrollFind
  <2> QED BY <1>1, <2>1, FailedEases, EasyStepRecords DEF RowsEase
<1> QED BY <1>2, <1>3

\* Inserting a certificate: no recorded check-in carries it.
LEMMA RecordEnrollInsert ==
  ASSUME IInv, RecordInv, NEW s \in Sessions, EnrollInsert(s)
  PROVE  RecordInv'
<1>1. sess[s].st = "enroll_found" /\ issued' = issued /\ sess[s].st \in Numbered
  BY DEF EnrollInsert, Numbered, Issued
<1>2. /\ sess[s].cert \in Cert /\ sess[s].key \in Keys /\ sess[s] \in Task
      /\ sess \in [Sessions -> Task] /\ devices \in [Keys -> Row \cup {None}]
  BY <1>1, NumberedTask, TaskTypes DEF IInv, TypeOK
<1>3. CASE Live(sess[s].cert.ws)
  <2>1. /\ devices' = [devices EXCEPT ![sess[s].key] = Enrolled(devices[sess[s].key], sess[s].cert)]
        /\ sess' = [sess EXCEPT ![s] = [sess[s] EXCEPT !.st = "enroll_inserted"]]
    BY <1>3 DEF EnrollInsert
  <2>2. /\ devices'[sess[s].key] = Enrolled(devices[sess[s].key], sess[s].cert)
        /\ \A k \in Keys : k # sess[s].key => devices'[k] = devices[k]
    BY <1>2, <2>1
  <2>3. devices'[sess[s].key].cert = sess[s].cert
    BY <2>2 DEF Enrolled
  <2>4. OneTask(s) /\ sess'[s].st = "enroll_inserted" /\ sess'[s].cert = sess[s].cert
    <3>1. OneTask(s)
      BY <1>2, <2>1 DEF OneTask
    <3>2. sess'[s] = [sess[s] EXCEPT !.st = "enroll_inserted"]
      BY <1>2, <2>1
    <3> QED BY <1>2, <3>1, <3>2 DEF Task
  <2>5. sess[s].cert.no <= issued
    BY <1>1 DEF RecordInv, CertificatesAreFresh
  <2>6. \A t \in Sessions : t # s /\ sess[t].st \in Numbered => sess[t].cert.no # sess[s].cert.no
    BY <1>1 DEF RecordInv, CertificatesAreFresh
  <2>7. \A k \in Keys : devices'[k] # None => devices'[k].cert.no <= issued'
    BY <1>1, <2>2, <2>3, <2>5 DEF RecordInv, CertificatesAreFresh
  <2>8. \A t \in Sessions : sess'[t].st \in Numbered => sess'[t].cert.no <= issued'
    BY <1>1, <2>4, <2>5 DEF RecordInv, CertificatesAreFresh, OneTask
  <2>9. ASSUME NEW t \in Sessions, sess'[t].st = "enroll_found"
        PROVE  /\ \A k \in Keys : devices'[k] # None => devices'[k].cert.no # sess'[t].cert.no
               /\ \A u \in Sessions : u # t /\ sess'[u].st \in Numbered =>
                                      sess'[u].cert.no # sess'[t].cert.no
    <3>1. t # s /\ sess'[t] = sess[t] /\ sess[t].st = "enroll_found" /\ sess[t].st \in Numbered
      BY <2>4, <2>9 DEF OneTask, Numbered, Issued
    <3>2. \A k \in Keys : devices'[k] # None => devices'[k].cert.no # sess'[t].cert.no
      BY <2>2, <2>3, <2>6, <3>1 DEF RecordInv, CertificatesAreFresh
    <3>3. ASSUME NEW u \in Sessions, u # t, sess'[u].st \in Numbered
          PROVE  sess'[u].cert.no # sess'[t].cert.no
      <4>1. CASE u = s
        BY <2>4, <2>6, <3>1, <4>1
      <4>2. CASE u # s
        BY <2>4, <3>1, <3>3, <4>2 DEF OneTask, RecordInv, CertificatesAreFresh
      <4> QED BY <4>1, <4>2
    <3> QED BY <3>2, <3>3
  <2>10. ASSUME NEW t \in Sessions PROVE Recorded(t)'
    <3> SUFFICES ASSUME sess'[t].st \in {"checkin_recorded", "checkin_answered"},
                        devices'[sess'[t].key] # None,
                        devices'[sess'[t].key].cert = sess'[t].cert
                 PROVE  devices'[sess'[t].key].checked
      BY DEF Recorded
    <3>1. t # s /\ sess'[t] = sess[t] /\ sess[t].st \in Numbered
      BY <2>4 DEF OneTask, Numbered, Looked
    <3>2. sess[t].key \in Keys /\ sess[t].cert.no # sess[s].cert.no
      BY <2>6, <3>1, NumberedTask
    <3>3. sess[t].key # sess[s].key
      BY <2>3, <3>1, <3>2
    <3>4. devices'[sess[t].key] = devices[sess[t].key]
      BY <2>2, <3>2, <3>3
    <3> QED BY <3>1, <3>4 DEF RecordInv, Recorded
  <2> QED BY <2>7, <2>8, <2>9, <2>10 DEF RecordInv, CertificatesAreFresh
<1>4. CASE ~Live(sess[s].cert.ws)
  <2>1. sess' = [sess EXCEPT ![s] = Failed(s)] /\ UNCHANGED devices
    BY <1>4 DEF EnrollInsert
  <2> QED BY <1>1, <2>1, FailedEases, EasyStepRecords DEF RowsEase
<1> QED BY <1>3, <1>4

\* The lookup hands a task the certificate of a row, never one that waits.
LEMMA RecordCheckinLookup ==
  ASSUME IInv, RecordInv, NEW s \in Sessions, CheckinLookup(s)
  PROVE  RecordInv'
<1> DEFINE row == devices[sess[s].key]
<1>1. sess[s].st = "checkin_req" /\ UNCHANGED <<devices, issued>>
  BY DEF CheckinLookup, db
<1>2. sess[s].key \in Keys /\ sess[s] \in Task /\ sess \in [Sessions -> Task]
  BY <1>1, TaskTypes DEF IInv, TaskSound, Working, TypeOK
<1>3. CASE row # None /\ Verified(row)
  <2>1. OneTask(s) /\ sess'[s].st = "checkin_known" /\ sess'[s].cert = row.cert
    <3>1. sess' = [sess EXCEPT ![s] = [sess[s] EXCEPT !.st = "checkin_known", !.cert = row.cert]]
      BY <1>3 DEF CheckinLookup
    <3>2. \A u \in Sessions : u # s => sess'[u] = sess[u]
      BY <1>2, <3>1
    <3>3. sess'[s] = [sess[s] EXCEPT !.st = "checkin_known", !.cert = row.cert]
      BY <1>2, <3>1
    <3> QED BY <1>2, <3>2, <3>3 DEF OneTask, Task
  <2>2. \A k \in Keys : devices'[k] # None => devices'[k].cert.no <= issued'
    BY <1>1 DEF RecordInv, CertificatesAreFresh
  <2>3. \A t \in Sessions : sess'[t].st \in Numbered => sess'[t].cert.no <= issued'
    BY <1>1, <1>2, <1>3, <2>1 DEF RecordInv, CertificatesAreFresh, OneTask
  <2>4. ASSUME NEW t \in Sessions, sess'[t].st = "enroll_found"
        PROVE  /\ \A k \in Keys : devices'[k] # None => devices'[k].cert.no # sess'[t].cert.no
               /\ \A u \in Sessions : u # t /\ sess'[u].st \in Numbered =>
                                      sess'[u].cert.no # sess'[t].cert.no
    <3>1. t # s /\ sess'[t] = sess[t] /\ sess[t].st = "enroll_found"
      BY <2>1, <2>4 DEF OneTask
    <3>2. \A k \in Keys : devices[k] # None => devices[k].cert.no # sess[t].cert.no
      BY <3>1 DEF RecordInv, CertificatesAreFresh
    <3>3. ASSUME NEW u \in Sessions, u # t, sess'[u].st \in Numbered
          PROVE  sess'[u].cert.no # sess'[t].cert.no
      <4>1. CASE u = s
        BY <1>2, <1>3, <2>1, <3>1, <3>2, <4>1
      <4>2. CASE u # s
        BY <2>1, <3>1, <3>3, <4>2 DEF OneTask, RecordInv, CertificatesAreFresh
      <4> QED BY <4>1, <4>2
    <3> QED BY <1>1, <3>1, <3>2, <3>3
  <2>5. ASSUME NEW t \in Sessions PROVE Recorded(t)'
    <3>1. CASE t = s
      BY <2>1, <3>1 DEF Recorded
    <3>2. CASE t # s
      BY <1>1, <2>1, <3>2 DEF Recorded, RecordInv, OneTask
    <3> QED BY <3>1, <3>2
  <2> QED BY <2>2, <2>3, <2>4, <2>5 DEF RecordInv, CertificatesAreFresh
<1>4. CASE ~(row # None /\ Verified(row))
  <2>1. sess' = [sess EXCEPT ![s] = Failed(s)]
    BY <1>4 DEF CheckinLookup
  <2> QED BY <1>1, <2>1, FailedEases, EasyStepRecords DEF RowsEase
<1> QED BY <1>3, <1>4

\* Recording a check-in checks the row of the device, whichever certificate the
\* row has by then.
LEMMA RecordCheckinRecord ==
  ASSUME IInv, RecordInv, NEW s \in Sessions, CheckinRecord(s)
  PROVE  RecordInv'
<1> DEFINE key == sess[s].key
<1>1. sess[s].st = "checkin_known" /\ issued' = issued /\ sess[s].st \in Numbered
  BY DEF CheckinRecord, Numbered, Looked
<1>2. /\ key \in Keys /\ sess[s] \in Task
      /\ sess \in [Sessions -> Task] /\ devices \in [Keys -> Row \cup {None}]
  BY <1>1, NumberedTask, TaskTypes DEF IInv, TypeOK
<1>3. /\ OneTask(s) /\ sess'[s].st = "checkin_recorded"
      /\ sess'[s].key = key /\ sess'[s].cert = sess[s].cert
  <2>1. sess' = [sess EXCEPT ![s] = [sess[s] EXCEPT !.st = "checkin_recorded"]]
    BY DEF CheckinRecord
  <2>2. \A u \in Sessions : u # s => sess'[u] = sess[u]
    BY <1>2, <2>1
  <2>3. sess'[s] = [sess[s] EXCEPT !.st = "checkin_recorded"]
    BY <1>2, <2>1
  <2> QED BY <1>2, <2>2, <2>3 DEF OneTask, Task
<1>4. /\ \A k \in Keys : k # key => devices'[k] = devices[k]
      /\ devices[key] = None => devices'[key] = None
      /\ devices[key] # None => devices'[key].cert = devices[key].cert /\ devices'[key].checked
  <2>1. CASE devices[key] = None
    BY <1>2, <2>1 DEF CheckinRecord
  <2>2. CASE devices[key] # None
    <3>1. devices[key] \in Row
      BY <1>2, <2>2
    <3>2. devices' = [devices EXCEPT ![key] = [devices[key] EXCEPT !.checked = TRUE]]
      BY <2>2 DEF CheckinRecord
    <3>3. devices'[key] = [devices[key] EXCEPT !.checked = TRUE]
      BY <1>2, <3>2
    <3>4. [devices[key] EXCEPT !.checked = TRUE].cert = devices[key].cert
          /\ [devices[key] EXCEPT !.checked = TRUE].checked = TRUE
      BY <3>1 DEF Row
    <3>5. \A k \in Keys : k # key => devices'[k] = devices[k]
      BY <1>2, <3>2
    <3> QED BY <2>2, <3>3, <3>4, <3>5
  <2> QED BY <2>1, <2>2
<1>5. \A k \in Keys : devices'[k] # None => devices[k] # None /\ devices'[k].cert = devices[k].cert
  BY <1>4
<1>6. \A k \in Keys : devices'[k] # None => devices'[k].cert.no <= issued'
  BY <1>1, <1>5 DEF RecordInv, CertificatesAreFresh
<1>7. \A t \in Sessions : sess'[t].st \in Numbered =>
        sess[t].st \in Numbered /\ sess'[t].cert = sess[t].cert
  BY <1>1, <1>3 DEF OneTask
<1>8. \A t \in Sessions : sess'[t].st \in Numbered => sess'[t].cert.no <= issued'
  BY <1>1, <1>7 DEF RecordInv, CertificatesAreFresh
<1>9. ASSUME NEW t \in Sessions, sess'[t].st = "enroll_found"
      PROVE  /\ \A k \in Keys : devices'[k] # None => devices'[k].cert.no # sess'[t].cert.no
             /\ \A u \in Sessions : u # t /\ sess'[u].st \in Numbered =>
                                    sess'[u].cert.no # sess'[t].cert.no
  <2>1. sess'[t] = sess[t] /\ sess[t].st = "enroll_found"
    BY <1>3, <1>9 DEF OneTask
  <2>2. \A k \in Keys : devices'[k] # None => devices'[k].cert.no # sess'[t].cert.no
    BY <1>5, <2>1 DEF RecordInv, CertificatesAreFresh
  <2>3. \A u \in Sessions : u # t /\ sess'[u].st \in Numbered =>
                            sess'[u].cert.no # sess'[t].cert.no
    BY <1>7, <2>1 DEF RecordInv, CertificatesAreFresh
  <2> QED BY <2>2, <2>3
<1>10. ASSUME NEW t \in Sessions PROVE Recorded(t)'
  <2> SUFFICES ASSUME sess'[t].st \in {"checkin_recorded", "checkin_answered"},
                      devices'[sess'[t].key] # None,
                      devices'[sess'[t].key].cert = sess'[t].cert
               PROVE  devices'[sess'[t].key].checked
    BY DEF Recorded
  <2>1. CASE sess'[t].key = key
    BY <1>4, <2>1
  <2>2. CASE sess'[t].key # key
    <3>1. t # s /\ sess'[t] = sess[t] /\ sess[t].st \in Numbered
      BY <1>3, <2>2 DEF OneTask, Numbered, Looked
    <3>2. sess[t].key \in Keys
      BY <3>1, NumberedTask
    <3>3. devices'[sess[t].key] = devices[sess[t].key]
      BY <1>4, <2>2, <3>1, <3>2
    <3> QED BY <3>1, <3>3 DEF RecordInv, Recorded
  <2> QED BY <2>1, <2>2
<1> QED BY <1>6, <1>8, <1>9, <1>10 DEF RecordInv, CertificatesAreFresh

\* An answer says what was recorded.
LEMMA RecordAnswers ==
  ASSUME IInv, RecordInv, NEW s \in Sessions, EnrollAnswer(s) \/ CheckinAnswer(s)
  PROVE  RecordInv'
<1>1. UNCHANGED <<devices, issued>>
  BY DEF EnrollAnswer, CheckinAnswer, db
<1>2. CASE sess[s].owner = None
  <2>1. sess' = [sess EXCEPT ![s] = Failed(s)]
    BY <1>2 DEF EnrollAnswer, CheckinAnswer, Failed
  <2> QED BY <1>1, <2>1, FailedEases, EasyStepRecords DEF RowsEase
<1>3. CASE sess[s].owner # None
  <2>1. sess \in [Sessions -> Task] /\ sess[s] \in Task
    BY TaskTypes DEF IInv, TypeOK
  <2>2. OneTask(s)
    BY <2>1 DEF OneTask, EnrollAnswer, CheckinAnswer
  <2>3. TaskEases(s)
    <3>1. CASE EnrollAnswer(s)
      <4>1. sess[s].st = "enroll_inserted" /\ sess'[s] = [sess[s] EXCEPT !.st = "enroll_answered"]
        BY <1>3, <2>1, <3>1 DEF EnrollAnswer
      <4> QED BY <2>1, <4>1 DEF TaskEases, Task, Numbered, Issued, Looked
    <3>2. CASE CheckinAnswer(s)
      <4>1. /\ sess[s].st = "checkin_recorded"
            /\ sess'[s] = [sess[s] EXCEPT !.st = "checkin_answered",
                                 !.name = IF Live(sess[s].cert.ws) THEN workspaces[sess[s].cert.ws]
                                          ELSE ""]
        BY <1>3, <2>1, <3>2 DEF CheckinAnswer
      <4> QED BY <2>1, <4>1 DEF TaskEases, Task, Numbered, Issued, Looked
    <3> QED BY <3>1, <3>2
  <2> QED BY <1>1, <2>2, <2>3, OthersEase, EasyStepRecords DEF RowsEase
<1> QED BY <1>2, <1>3

\* A crash of the server ends tasks; their rows stay as they were.
LEMMA RecordServerCrash ==
  ASSUME IInv, RecordInv, ServerCrash
  PROVE  RecordInv'
<1>1. UNCHANGED <<devices, issued>>
  BY DEF ServerCrash, db
<1>2. ASSUME NEW t \in Sessions PROVE TaskEases(t)
  <2>1. sess'[t] = sess[t] \/ sess'[t] = Failed(t)
    BY DEF ServerCrash
  <2>2. CASE sess'[t] = Failed(t)
    <3>1. sess'[t].st \in {"free", "failed"}
      BY <2>2, FailedTask DEF IInv
    <3> QED BY <3>1 DEF TaskEases, Numbered, Issued, Looked
  <2> QED BY <2>1, <2>2 DEF TaskEases
<1> QED BY <1>1, <1>2, EasyStepRecords DEF RowsEase

\* A task that ends, by an error or with its peer, wrote what it wrote.
LEMMA RecordTaskEnds ==
  ASSUME IInv, RecordInv, NEW s \in Sessions, TaskFails(s) \/ DropOrphan(s)
  PROVE  RecordInv'
<1>1. UNCHANGED <<devices, issued>>
  BY DEF TaskFails, DropOrphan, db
<1>2. sess' = [sess EXCEPT ![s] = Failed(s)]
  BY DEF TaskFails, DropOrphan, Failed
<1> QED BY <1>1, <1>2, FailedEases, EasyStepRecords DEF RowsEase

\* Deleting a workspace only takes rows away.
LEMMA RecordAdmin ==
  ASSUME IInv, RecordInv, AdminStep
  PROVE  RecordInv'
<1>1. UNCHANGED <<sess, issued>> /\ RowsEase
  BY DEF AdminStep, CreateWorkspace, RenameWorkspace, DeleteWorkspace, server, RowsEase
<1> QED BY <1>1, EasyStepRecords DEF TaskEases

-----------------------------------------------------------------------------
(* What an agent does to the tasks.                                        *)

\* An agent opens a task that is free, closes one of its own, or leaves its
\* tasks to run without it.
AgentTouches(t) ==
  \/ sess'[t] = sess[t]
  \/ sess'[t] = Free
  \/ sess'[t] = [sess[t] EXCEPT !.owner = None]
  \/ sess'[t].st \in {"enroll_req", "checkin_req"}

\* The actions of an agent that leave the tasks alone.
LocalAgentStep(c) ==
  \/ Start(c) \/ ClearEnrollment(c) \/ LoadKey(c) \/ GenerateKey(c)
  \/ WriteKey(c) \/ Decide(c) \/ SaveCertificate(c) \/ SaveWorkspacePublicKey(c)
  \/ StartScheduler(c) \/ CheckinRefused(c) \/ SaveSynced(c) \/ SaveSyncedFails(c) \/ Wake(c)
  \/ UserStep(c)

\* Those that end the process, or its connection.
LeavingStep(c) ==
  \/ KeyUnreadable(c) \/ EnrollRefused(c) \/ ClientCrash(c) \/ Disconnect(c) \/ GoesSilent(c)
  \/ \E s \in Sessions : EnrollError(c, s)

\* Where an agent is that lost its connection and runs on.
LostAt == {"sleep_err", "enroll_silent", "checkin_silent"}

\* Those that open or close a connection.
ConnectingStep(c) ==
  \E s \in Sessions : \/ EnrollConnect(c, s) \/ EnrollReceive(c, s)
                      \/ CheckinConnect(c, s) \/ CheckinReceive(c, s) \/ CheckinError(c, s)

\* What goes wrong with one agent.
AgentFault(c) == ClientCrash(c) \/ Disconnect(c) \/ GoesSilent(c) \/ SaveSyncedFails(c)

\* Every step of an agent is of one of the three kinds.
LEMMA AgentStepKinds ==
  ASSUME NEW c \in Clients, AgentStep(c) \/ UserStep(c) \/ AgentFault(c)
  PROVE  LocalAgentStep(c) \/ LeavingStep(c) \/ ConnectingStep(c)
  BY DEF AgentStep, AgentFault, LocalAgentStep, LeavingStep, ConnectingStep

\* No agent touches the tables or issues a certificate.
LEMMA AgentKeepsTables ==
  ASSUME NEW c \in Clients, LocalAgentStep(c) \/ LeavingStep(c) \/ ConnectingStep(c)
  PROVE  UNCHANGED <<workspaces, created, devices, identity, issued>>
<1>1. CASE LocalAgentStep(c)
  BY <1>1 DEF LocalAgentStep, UserStep, Start, StartReenroll, Configure, ClearEnrollment,
     LoadKey, GenerateKey, WriteKey, Decide, SaveCertificate, SaveWorkspacePublicKey,
     StartScheduler, CheckinRefused, SaveSynced, SaveSyncedFails, Wake, db, server
<1>2. CASE LeavingStep(c)
  BY <1>2 DEF LeavingStep, KeyUnreadable, EnrollRefused, ClientCrash, Disconnect,
     GoesSilent, EnrollError, db
<1>3. CASE ConnectingStep(c)
  BY <1>3 DEF ConnectingStep, EnrollConnect, EnrollReceive, CheckinConnect, CheckinReceive,
     CheckinError, db
<1> QED BY <1>1, <1>2, <1>3

\* What an agent does to each task.
LEMMA AgentTouchesTasks ==
  ASSUME IInv, NEW c \in Clients, LocalAgentStep(c) \/ LeavingStep(c) \/ ConnectingStep(c)
  PROVE  \A t \in Sessions : AgentTouches(t)
<1> SUFFICES ASSUME NEW t \in Sessions PROVE AgentTouches(t)
  OBVIOUS
<1>1. CASE LocalAgentStep(c)
  <2>1. UNCHANGED sess
    BY <1>1 DEF LocalAgentStep, UserStep, Start, StartReenroll, Configure, ClearEnrollment,
       LoadKey, GenerateKey, WriteKey, Decide, SaveCertificate, SaveWorkspacePublicKey,
       StartScheduler, CheckinRefused, SaveSynced, SaveSyncedFails, Wake, server
  <2> QED BY <2>1 DEF AgentTouches
<1>2. CASE LeavingStep(c)
  <2>1. sess' = Orphaned(c)
    BY <1>2 DEF LeavingStep, KeyUnreadable, EnrollRefused, ClientCrash, Disconnect,
     GoesSilent, EnrollError, Exit
  <2> QED BY <2>1 DEF AgentTouches, Orphaned
<1>3. CASE ConnectingStep(c)
  <2>1. PICK s \in Sessions : \/ EnrollConnect(c, s) \/ EnrollReceive(c, s)
                              \/ CheckinConnect(c, s) \/ CheckinReceive(c, s) \/ CheckinError(c, s)
    BY <1>3 DEF ConnectingStep
  <2>2. sess \in [Sessions -> Task]
    BY DEF IInv, TypeOK
  <2>3. CASE \E w \in Workspaces \cup {None} : \/ Open(s, c, "enroll_req", w)
                                              \/ Open(s, c, "checkin_req", w)
    BY <2>2, <2>3 DEF Open, Free, AgentTouches
  <2>4. CASE sess' = [sess EXCEPT ![s] = Free]
    BY <2>2, <2>4 DEF AgentTouches
  <2>5. config[c] \in Workspaces \cup {None} /\ None \in Workspaces \cup {None}
    BY AgentFacts
  <2> QED BY <2>1, <2>3, <2>4, <2>5
      DEF EnrollConnect, EnrollReceive, CheckinConnect, CheckinReceive, CheckinError
<1> QED BY <1>1, <1>2, <1>3

\* No agent disturbs what was recorded.
LEMMA RecordAgent ==
  ASSUME IInv, RecordInv, NEW c \in Clients,
         LocalAgentStep(c) \/ LeavingStep(c) \/ ConnectingStep(c)
  PROVE  RecordInv'
<1>1. UNCHANGED <<devices, issued>>
  BY AgentKeepsTables
<1>2. ASSUME NEW t \in Sessions PROVE TaskEases(t)
  <2>1. sess[t] \in Task /\ AgentTouches(t)
    BY TaskTypes, AgentTouchesTasks DEF IInv
  <2>2. CASE sess'[t] = sess[t]
    BY <2>2 DEF TaskEases
  <2>3. CASE sess'[t] = Free
    BY <2>3 DEF TaskEases, Free, Numbered, Issued, Looked
  <2>4. CASE sess'[t] = [sess[t] EXCEPT !.owner = None]
    BY <2>1, <2>4 DEF TaskEases, Task
  <2>5. CASE sess'[t].st \in {"enroll_req", "checkin_req"}
    BY <2>5 DEF TaskEases, Numbered, Issued, Looked
  <2> QED BY <2>1, <2>2, <2>3, <2>4, <2>5 DEF AgentTouches
<1> QED BY <1>1, <1>2, EasyStepRecords DEF RowsEase

\* Nothing is recorded when nothing has run yet.
LEMMA RecordInit == Init => RecordInv
  BY DEF Init, Free, RecordInv, CertificatesAreFresh, Recorded, Numbered, Issued, Looked

\* Every step keeps RecordInv.
LEMMA StepRecordInv == IInv /\ RecordInv /\ [Next]_vars => RecordInv'
<1> SUFFICES ASSUME IInv, RecordInv, [Next]_vars PROVE RecordInv'
  OBVIOUS
<1>1. CASE ServerStart \/ LoadIdentity \/ StoreIdentity
  BY <1>1, NothingEases DEF ServerStart, LoadIdentity, StoreIdentity, db
<1>2. CASE ServerStep
  BY <1>1, <1>2, RecordEnrollFind, RecordEnrollInsert, RecordAnswers, RecordCheckinLookup,
     RecordCheckinRecord DEF ServerStep
<1>3. CASE AdminStep
  BY <1>3, RecordAdmin
<1>4. ASSUME NEW c \in Clients, AgentStep(c) \/ UserStep(c) \/ AgentFault(c)
      PROVE  RecordInv'
  BY <1>4, AgentStepKinds, RecordAgent
<1>5. CASE Fault
  BY <1>4, <1>5, RecordServerCrash, RecordTaskEnds DEF Fault, AgentFault
<1>6. CASE UNCHANGED vars
  BY <1>6, NothingEases DEF vars, db, server
<1> QED BY <1>2, <1>3, <1>4, <1>5, <1>6 DEF Next

-----------------------------------------------------------------------------
(* Members of live workspaces.                                             *)

Enrolling == Issued \cup {"enroll_req"}

\* The keys an agent holds are device keys; its certificate is for one of them.
LEMMA HeldFacts ==
  ASSUME IInv, NEW c \in Clients
  PROVE  /\ HeldKeys(c) \subseteq Keys
         /\ disk[c].cert \notin {None, Torn} =>
              disk[c].cert \in Cert /\ disk[c].cert.key \in HeldKeys(c)
         /\ pc[c] \in Saving => mem[c].cert \in Cert /\ mem[c].cert.key \in HeldKeys(c)
<1>1. HeldKeys(c) \subseteq Keys
  BY AgentTypes DEF IInv, HeldKeys
<1>2. ASSUME disk[c].cert \notin {None, Torn}
      PROVE  disk[c].cert \in Cert /\ disk[c].cert.key \in HeldKeys(c)
  <2>1. disk[c].cert \in Cert /\ disk[c].key = disk[c].cert.key
    BY <1>2, AgentTypes DEF IInv, DiskSound
  <2>2. disk[c].cert.key \in Keys
    BY <2>1, CertFields
  <2> QED BY <2>1, <2>2, AbsentIsNoValue DEF HeldKeys
<1>3. ASSUME pc[c] \in Saving
      PROVE  mem[c].cert \in Cert /\ mem[c].cert.key \in HeldKeys(c)
  <2>1. mem[c].cert \in Cert /\ mem[c].key = mem[c].cert.key
    BY <1>3, AgentTypes DEF IInv, AgentSound
  <2>2. mem[c].cert.key \in Keys
    BY <2>1, CertFields
  <2> QED BY <2>1, <2>2, AbsentIsNoValue DEF HeldKeys
<1> QED BY <1>1, <1>2, <1>3

\* A task whose client waits for its enrollment runs for a key the client holds.
LEMMA OwnedTask ==
  ASSUME IInv, NEW s \in Sessions, sess[s].st \in Issued, sess[s].owner # None
  PROVE  /\ sess[s].owner \in Clients /\ sess[s].cert \in Cert
         /\ sess[s].cert.key = sess[s].key /\ sess[s].key \in HeldKeys(sess[s].owner)
<1>1. /\ sess[s].owner \in Clients /\ sess[s].key = mem[sess[s].owner].key
  BY TaskTypes DEF IInv, OwnerWaits
<1>2. sess[s].cert \in Cert /\ sess[s].cert.key = sess[s].key /\ sess[s].key \in Keys
  BY NumberedTask DEF Numbered
<1> QED BY <1>1, <1>2, AbsentIsNoValue DEF HeldKeys

\* What the agents know survives a step of the server that takes no row away.
LEMMA AgentsStayHome ==
  ASSUME MemberInv, UNCHANGED <<disk, mem, pc, config, usedKeys, workspaces, created>>, IInv,
         \A k \in Keys : devices[k] # None => devices'[k] # None
  PROVE  \A c \in Clients : AgentStaysHome(c)'
<1> SUFFICES ASSUME NEW c \in Clients PROVE AgentStaysHome(c)'
  OBVIOUS
<1>1. AgentStaysHome(c)
  BY DEF MemberInv
<1>2. disk[c].cert \notin {None, Torn} => Backed(disk[c].cert)'
  <2>1. disk[c].cert \notin {None, Torn} => disk[c].cert.key \in Keys
    BY HeldFacts
  <2> QED BY <1>1, <2>1 DEF AgentStaysHome, Backed, Live
<1>3. pc[c] \in Saving => Backed(mem[c].cert)'
  <2>1. pc[c] \in Saving => mem[c].cert.key \in Keys
    BY HeldFacts
  <2> QED BY <1>1, <2>1 DEF AgentStaysHome, Backed, Live
<1> QED BY <1>1, <1>2, <1>3 DEF AgentStaysHome, HeldKeys

\* A task that no step touches stays home while no row goes and no key moves.
LEMMA TaskHome ==
  ASSUME MemberInv, IInv, NEW s \in Sessions, UNCHANGED <<workspaces, config>>,
         usedKeys \subseteq usedKeys',
         sess'[s].st \in Enrolling =>
           /\ sess'[s].st = sess[s].st /\ sess'[s].key = sess[s].key /\ sess'[s].ws = sess[s].ws
           /\ sess'[s].cert = sess[s].cert /\ sess'[s].owner \in {sess[s].owner, None},
         \A c \in Clients : HeldKeys(c)' \cap usedKeys \subseteq HeldKeys(c),
         \A k \in Keys : devices[k] # None => devices'[k] # None
  PROVE  TaskStaysHome(s)'
<1> SUFFICES ASSUME sess'[s].st \in Enrolling PROVE TaskStaysHome(s)'
  BY DEF TaskStaysHome, Enrolling, Issued
<1>1. /\ sess'[s].st = sess[s].st /\ sess'[s].key = sess[s].key /\ sess'[s].ws = sess[s].ws
      /\ sess'[s].cert = sess[s].cert /\ sess'[s].owner \in {sess[s].owner, None}
  OBVIOUS
<1>2. TaskStaysHome(s)
  BY DEF MemberInv
<1>3. sess[s].key \in usedKeys
  BY <1>1, <1>2 DEF TaskStaysHome, Enrolling
<1>4. \A c \in Clients : sess[s].key \in HeldKeys(c)' => sess[s].ws = config'[c]
  BY <1>1, <1>2, <1>3 DEF TaskStaysHome, Enrolling
<1>5. sess[s].st \in {"enroll_inserted", "enroll_answered"} /\ sess'[s].owner # None =>
        Backed(sess[s].cert)'
  <2> SUFFICES ASSUME sess[s].st \in {"enroll_inserted", "enroll_answered"}, sess'[s].owner # None
               PROVE  Backed(sess[s].cert)'
    OBVIOUS
  <2>1. sess[s].owner # None /\ sess[s].st \in Issued
    BY <1>1 DEF Issued
  <2>2. sess[s].cert.key \in Keys
    BY <2>1, OwnedTask, CertFields
  <2>3. Backed(sess[s].cert)
    BY <1>2, <2>1 DEF TaskStaysHome
  <2> QED BY <2>2, <2>3 DEF Backed, Live
<1> QED BY <1>1, <1>2, <1>3, <1>4, <1>5 DEF TaskStaysHome, Enrolling

\* A row that a step leaves alone, or takes away, stays home.
LEMMA RowHome ==
  ASSUME MemberInv, NEW k \in Keys, config' = config, usedKeys \subseteq usedKeys',
         devices'[k] # None => devices[k] # None /\ devices'[k].cert.ws = devices[k].cert.ws,
         \A c \in Clients : HeldKeys(c)' \cap usedKeys \subseteq HeldKeys(c)
  PROVE  RowStaysHome(k)'
<1>1. RowStaysHome(k)
  BY DEF MemberInv
<1> QED BY <1>1 DEF RowStaysHome

\* A step of one task of the server that leaves the tables alone.
LEMMA QuietServerHome ==
  ASSUME MemberInv, IInv, UNCHANGED <<db, settings, agent>>,
         \A t \in Sessions : TaskStaysHome(t)'
  PROVE  MemberInv'
<1>1. /\ UNCHANGED <<workspaces, created, devices, config, disk, mem, pc, usedKeys>>
      /\ \A c \in Clients : HeldKeys(c)' = HeldKeys(c)
  BY DEF db, settings, agent, HeldKeys
<1>2. \A c \in Clients : AgentStaysHome(c)'
  BY <1>1, AgentsStayHome
<1>3. \A k \in Keys : RowStaysHome(k)'
  BY <1>1, RowHome
<1> QED BY <1>2, <1>3 DEF MemberInv

\* The tasks a server step does not touch stay home.
LEMMA OtherTasksHome ==
  ASSUME MemberInv, IInv, NEW s \in Sessions, OneTask(s),
         UNCHANGED <<workspaces, settings, agent>>,
         \A k \in Keys : devices[k] # None => devices'[k] # None
  PROVE  \A t \in Sessions : t # s => TaskStaysHome(t)'
<1>1. UNCHANGED <<config, disk, mem, usedKeys>> /\ \A c \in Clients : HeldKeys(c)' = HeldKeys(c)
  BY DEF settings, agent, HeldKeys
<1> QED BY <1>1, TaskHome DEF OneTask

\* A task that ends, or goes on outside enrollment, has no promise to keep.
LEMMA EndedHome ==
  ASSUME MemberInv, IInv, NEW s \in Sessions, OneTask(s), sess'[s].st \notin Enrolling,
         UNCHANGED <<db, settings, agent>>
  PROVE  MemberInv'
<1>1. UNCHANGED <<workspaces, devices>>
  BY DEF db
<1>2. TaskStaysHome(s)'
  BY DEF TaskStaysHome, Enrolling, Issued
<1>3. \A t \in Sessions : t # s => TaskStaysHome(t)'
  BY <1>1, OtherTasksHome
<1> QED BY <1>2, <1>3, QuietServerHome

\* The record of one task after an update of sess.
LEMMA OneTaskUpdate ==
  ASSUME IInv, NEW s \in Sessions, NEW t, sess' = [sess EXCEPT ![s] = t]
  PROVE  OneTask(s) /\ sess'[s] = t /\ sess[s] \in Task
  BY TaskTypes DEF IInv, TypeOK, OneTask

\* A task that fails is in no enrollment any more.
LEMMA FailedHome ==
  ASSUME MemberInv, IInv, NEW s \in Sessions, sess' = [sess EXCEPT ![s] = Failed(s)],
         UNCHANGED <<db, settings, agent>>
  PROVE  MemberInv'
<1>1. sess'[s].st \in {"free", "failed"} /\ OneTask(s)
  BY OneTaskUpdate, FailedTask DEF IInv
<1>2. sess'[s].st \notin Enrolling
  BY <1>1 DEF Enrolling, Issued
<1> QED BY <1>1, <1>2, EndedHome

\* The certificate signed is for the workspace the client asked for.
LEMMA HomeEnrollFind ==
  ASSUME MemberInv, IInv, NEW s \in Sessions, EnrollFind(s)
  PROVE  MemberInv'
<1>1. sess[s].st = "enroll_req" /\ UNCHANGED <<db, settings, agent>>
  BY DEF EnrollFind
<1>2. CASE Live(sess[s].ws)
  <2>1. sess' = [sess EXCEPT ![s] = [sess[s] EXCEPT !.st = "enroll_found", !.cert = NewCert(s)]]
    BY <1>2 DEF EnrollFind
  <2>2. OneTask(s) /\ sess[s] \in Task
        /\ sess'[s] = [sess[s] EXCEPT !.st = "enroll_found", !.cert = NewCert(s)]
    BY <2>1, OneTaskUpdate
  <2>3. /\ sess'[s].st = "enroll_found" /\ sess'[s].cert = NewCert(s)
        /\ sess'[s].key = sess[s].key /\ sess'[s].ws = sess[s].ws
    BY <2>2 DEF Task
  <2>4. UNCHANGED <<workspaces, devices, config, disk, mem, usedKeys>>
    BY <1>1 DEF db, settings, agent
  <2>5. NewCert(s).ws = sess[s].ws
    BY <1>1, NewCertIsCert
  <2>6. TaskStaysHome(s)
    BY DEF MemberInv
  <2>7. TaskStaysHome(s)'
    BY <1>1, <2>3, <2>4, <2>5, <2>6 DEF TaskStaysHome, HeldKeys
  <2>8. \A t \in Sessions : t # s => TaskStaysHome(t)'
    BY <1>1, <2>2, <2>4, OtherTasksHome
  <2> QED BY <1>1, <2>7, <2>8, QuietServerHome
<1>3. CASE ~Live(sess[s].ws)
  BY <1>1, <1>3, FailedHome DEF EnrollFind
<1> QED BY <1>2, <1>3

\* The row inserted is for the workspace of the machine that holds its key,
\* whatever row was there before.
LEMMA HomeEnrollInsert ==
  ASSUME MemberInv, IInv, NEW s \in Sessions, EnrollInsert(s)
  PROVE  MemberInv'
<1>1. /\ sess[s].st = "enroll_found" /\ UNCHANGED <<workspaces, created, identity, settings, agent>>
      /\ sess[s].st \in Issued /\ sess[s].st \in Enrolling
  BY DEF EnrollInsert, Issued, Enrolling
<1>2. CASE Live(sess[s].cert.ws)
  <2>1. /\ sess[s].key \in Keys /\ sess[s].cert \in Cert /\ sess[s].cert.key = sess[s].key
        /\ devices \in [Keys -> Row \cup {None}]
    BY <1>1, NumberedTask DEF Numbered, IInv, TypeOK
  <2>2. /\ devices' = [devices EXCEPT ![sess[s].key] = Enrolled(devices[sess[s].key], sess[s].cert)]
        /\ sess' = [sess EXCEPT ![s] = [sess[s] EXCEPT !.st = "enroll_inserted"]]
    BY <1>2 DEF EnrollInsert
  <2>3. OneTask(s) /\ sess[s] \in Task /\ sess'[s] = [sess[s] EXCEPT !.st = "enroll_inserted"]
    BY <2>2, OneTaskUpdate
  <2>4. /\ sess'[s].st = "enroll_inserted" /\ sess'[s].cert = sess[s].cert
        /\ sess'[s].key = sess[s].key /\ sess'[s].ws = sess[s].ws
    BY <2>3 DEF Task
  <2>5. /\ devices'[sess[s].key] = Enrolled(devices[sess[s].key], sess[s].cert)
        /\ \A k \in Keys : k # sess[s].key => devices'[k] = devices[k]
    BY <2>1, <2>2
  <2>6. devices'[sess[s].key] # None /\ devices'[sess[s].key].cert = sess[s].cert
    <3>1. devices[sess[s].key] \in Row \cup {None}
      BY <2>1
    <3>2. (IF devices[sess[s].key] = None THEN FALSE ELSE devices[sess[s].key].checked) \in BOOLEAN
      BY <3>1 DEF Row
    <3>3. Enrolled(devices[sess[s].key], sess[s].cert) \in Row
      BY <2>1, <3>2 DEF Row, Enrolled
    <3>4. Enrolled(devices[sess[s].key], sess[s].cert).cert = sess[s].cert
      BY DEF Enrolled
    <3> QED BY <2>5, <3>3, <3>4, AbsentIsNoValue
  <2>7. /\ UNCHANGED <<config, disk, mem, pc, usedKeys>>
        /\ \A c \in Clients : HeldKeys(c)' = HeldKeys(c)
    BY <1>1 DEF settings, agent, HeldKeys
  <2>8. \A k \in Keys : devices[k] # None => devices'[k] # None
    BY <2>5, <2>6
  <2>9. TaskStaysHome(s)
    BY DEF MemberInv
  <2>10. TaskStaysHome(s)'
    BY <1>1, <2>1, <2>4, <2>6, <2>7, <2>9 DEF TaskStaysHome, Backed, Enrolling
  <2>11. \A t \in Sessions : t # s => TaskStaysHome(t)'
    BY <1>1, <2>3, <2>8, OtherTasksHome
  <2>12. \A c \in Clients : AgentStaysHome(c)'
    BY <1>1, <2>7, <2>8, AgentsStayHome
  <2>13. ASSUME NEW k \in Keys PROVE RowStaysHome(k)'
    <3>1. CASE k = sess[s].key
      BY <1>1, <2>6, <2>7, <2>9, <3>1 DEF TaskStaysHome, RowStaysHome, Enrolling
    <3>2. CASE k # sess[s].key
      BY <2>5, <2>7, <3>2, RowHome
    <3> QED BY <3>1, <3>2
  <2> QED BY <2>10, <2>11, <2>12, <2>13 DEF MemberInv
<1>3. CASE ~Live(sess[s].cert.ws)
  <2>1. sess' = [sess EXCEPT ![s] = Failed(s)] /\ UNCHANGED db
    BY <1>1, <1>3 DEF EnrollInsert, db
  <2> QED BY <1>1, <2>1, FailedHome
<1> QED BY <1>2, <1>3

\* An answered enrollment is one whose row was inserted.
LEMMA HomeEnrollAnswer ==
  ASSUME MemberInv, IInv, NEW s \in Sessions, EnrollAnswer(s)
  PROVE  MemberInv'
<1>1. sess[s].st = "enroll_inserted" /\ UNCHANGED <<db, settings, agent>>
  BY DEF EnrollAnswer
<1>2. CASE sess[s].owner = None
  BY <1>1, <1>2, FailedHome DEF EnrollAnswer, Failed
<1>3. CASE sess[s].owner # None
  <2>1. sess' = [sess EXCEPT ![s] = [sess[s] EXCEPT !.st = "enroll_answered"]]
    BY <1>3 DEF EnrollAnswer
  <2>2. OneTask(s) /\ sess[s] \in Task /\ sess'[s] = [sess[s] EXCEPT !.st = "enroll_answered"]
    BY <2>1, OneTaskUpdate
  <2>3. /\ sess'[s].st = "enroll_answered" /\ sess'[s].cert = sess[s].cert
        /\ sess'[s].key = sess[s].key /\ sess'[s].ws = sess[s].ws /\ sess'[s].owner = sess[s].owner
    BY <2>2 DEF Task
  <2>4. UNCHANGED <<workspaces, devices, config, disk, mem, usedKeys>>
    BY <1>1 DEF db, settings, agent
  <2>5. TaskStaysHome(s)
    BY DEF MemberInv
  <2>6. TaskStaysHome(s)'
    BY <1>1, <2>3, <2>4, <2>5 DEF TaskStaysHome, HeldKeys, Backed, Live, Issued
  <2>7. \A t \in Sessions : t # s => TaskStaysHome(t)'
    BY <1>1, <2>2, <2>4, OtherTasksHome
  <2> QED BY <1>1, <2>6, <2>7, QuietServerHome
<1> QED BY <1>2, <1>3

\* A check-in moves no device to another workspace.
LEMMA HomeCheckin ==
  ASSUME MemberInv, IInv, NEW s \in Sessions,
         CheckinLookup(s) \/ CheckinRecord(s) \/ CheckinAnswer(s)
  PROVE  MemberInv'
<1>1. UNCHANGED <<workspaces, created, settings, agent>>
  BY DEF CheckinLookup, CheckinRecord, CheckinAnswer, db
<1>2. /\ UNCHANGED <<config, disk, mem, pc, usedKeys>>
      /\ \A c \in Clients : HeldKeys(c)' = HeldKeys(c)
  BY <1>1 DEF settings, agent, HeldKeys
<1>3. OneTask(s) /\ sess'[s].st \notin Enrolling
  <2>1. sess[s] \in Task /\ sess \in [Sessions -> Task]
    BY TaskTypes DEF IInv, TypeOK
  <2>2. OneTask(s)
    BY <2>1 DEF CheckinLookup, CheckinRecord, CheckinAnswer, OneTask
  <2>3. CASE sess'[s] = Failed(s) \/ sess'[s] = Free
    <3>1. sess'[s].st \in {"free", "failed"}
      BY <2>3, FailedTask DEF IInv, Free
    <3> QED BY <2>2, <3>1 DEF Enrolling, Issued
  <2>4. CASE CheckinLookup(s) /\ sess'[s] # Failed(s)
    <3>1. sess'[s] = [sess[s] EXCEPT !.st = "checkin_known", !.cert = devices[sess[s].key].cert]
      BY <2>1, <2>4 DEF CheckinLookup
    <3> QED BY <2>1, <2>2, <3>1 DEF Task, Enrolling, Issued
  <2>5. CASE CheckinRecord(s)
    <3>1. sess'[s] = [sess[s] EXCEPT !.st = "checkin_recorded"]
      BY <2>1, <2>5 DEF CheckinRecord
    <3> QED BY <2>1, <2>2, <3>1 DEF Task, Enrolling, Issued
  <2>6. CASE CheckinAnswer(s) /\ sess'[s] # Free
    <3>1. sess'[s] = [sess[s] EXCEPT !.st = "checkin_answered",
             !.name = IF Live(sess[s].cert.ws) THEN workspaces[sess[s].cert.ws] ELSE ""]
      BY <2>1, <2>6 DEF CheckinAnswer
    <3> QED BY <2>1, <2>2, <3>1 DEF Task, Enrolling, Issued
  <2> QED BY <2>3, <2>4, <2>5, <2>6
<1>4. \A k \in Keys : /\ devices'[k] # None <=> devices[k] # None
                      /\ devices'[k] # None => devices'[k].cert.ws = devices[k].cert.ws
  <2>1. CASE UNCHANGED devices
    BY <2>1
  <2>2. CASE CheckinRecord(s) /\ devices[sess[s].key] # None
    <3>1. /\ sess[s].key \in Keys /\ devices \in [Keys -> Row \cup {None}]
          /\ devices[sess[s].key] \in Row
      BY <2>2, NumberedTask DEF CheckinRecord, Numbered, Looked, IInv, TypeOK
    <3>2. devices' = [devices EXCEPT ![sess[s].key] = [devices[sess[s].key] EXCEPT !.checked = TRUE]]
      BY <2>2 DEF CheckinRecord
    <3>3. devices'[sess[s].key] = [devices[sess[s].key] EXCEPT !.checked = TRUE]
      BY <3>1, <3>2
    <3>4. devices'[sess[s].key] \in Row /\ devices'[sess[s].key].cert = devices[sess[s].key].cert
      BY <3>1, <3>3 DEF Row
    <3>5. \A k \in Keys : k # sess[s].key => devices'[k] = devices[k]
      BY <3>1, <3>2
    <3> QED BY <2>2, <3>4, <3>5, AbsentIsNoValue
  <2> QED BY <2>1, <2>2 DEF CheckinLookup, CheckinRecord, CheckinAnswer, db
<1>5. TaskStaysHome(s)'
  BY <1>3 DEF TaskStaysHome, Enrolling, Issued
<1>6. \A t \in Sessions : t # s => TaskStaysHome(t)'
  BY <1>1, <1>3, <1>4, OtherTasksHome
<1>7. \A c \in Clients : AgentStaysHome(c)'
  BY <1>1, <1>2, <1>4, AgentsStayHome
<1>8. \A k \in Keys : RowStaysHome(k)'
  BY <1>2, <1>4, RowHome
<1> QED BY <1>5, <1>6, <1>7, <1>8 DEF MemberInv

-----------------------------------------------------------------------------
(* Administrators and members.                                             *)

\* What an administrator does to the tables: no workspace that was there before
\* comes to life, and a row goes only with its workspace.
Administers ==
  /\ UNCHANGED <<server, settings, agent>> /\ created \subseteq created'
  /\ \A v \in created : workspaces'[v] # None => workspaces[v] # None
  /\ \A k \in Keys : \/ devices'[k] = devices[k]
                     \/ devices'[k] = None /\ workspaces'[devices[k].cert.ws] = None

\* Creating, renaming and deleting are of that kind: an id is drawn once.
LEMMA AdminAdministers ==
  ASSUME IInv, AdminStep
  PROVE  Administers
<1>1. workspaces \in [Workspaces -> Names \cup {None}] /\ created \subseteq Workspaces
  BY TableTypes DEF IInv, TypeOK
<1>2. PICK w \in Workspaces : \/ \E n \in Names : CreateWorkspace(w, n) \/ RenameWorkspace(w, n)
                              \/ DeleteWorkspace(w)
  BY DEF AdminStep
<1>3. UNCHANGED <<server, settings, agent>> /\ created \subseteq created'
  BY <1>2 DEF CreateWorkspace, RenameWorkspace, DeleteWorkspace
<1>4. CASE \E n \in Names : CreateWorkspace(w, n)
  BY <1>1, <1>3, <1>4 DEF CreateWorkspace, Administers
<1>5. CASE \E n \in Names : RenameWorkspace(w, n)
  BY <1>1, <1>3, <1>5 DEF RenameWorkspace, Live, Administers
<1>6. CASE DeleteWorkspace(w)
  <2>1. workspaces' = [workspaces EXCEPT ![w] = None]
    BY <1>6 DEF DeleteWorkspace
  <2>2. workspaces'[w] = None
    BY <1>1, <2>1
  <2>3. \A v \in created : workspaces'[v] # None => workspaces[v] # None
    BY <1>1, <2>1
  <2>4. \A k \in Keys : \/ devices'[k] = devices[k]
                        \/ devices'[k] = None /\ workspaces'[devices[k].cert.ws] = None
    BY <1>6, <2>2 DEF DeleteWorkspace
  <2> QED BY <1>3, <2>3, <2>4 DEF Administers
<1> QED BY <1>2, <1>4, <1>5, <1>6

\* A member of a live workspace keeps its row: it is a row of that workspace.
LEMMA BackedStays ==
  ASSUME MemberInv, Administers, NEW c \in Clients, NEW cert \in Cert,
         cert.key \in HeldKeys(c), cert.ws = config[c], Backed(cert)
  PROVE  workspaces'[cert.ws] # None => devices'[cert.key] # None
<1> SUFFICES ASSUME workspaces'[cert.ws] # None PROVE devices'[cert.key] # None
  OBVIOUS
<1>1. cert.ws \in Workspaces /\ cert.key \in Keys
  BY CertFields
<1>2. config[c] # None /\ config[c] \in created
  BY <1>1, AbsentIsNoValue DEF MemberInv, AgentStaysHome
<1>3. Live(cert.ws) /\ devices[cert.key] # None
  BY <1>2 DEF Administers, Backed, Live
<1>4. devices[cert.key].cert.ws = config[c]
  BY <1>1, <1>3 DEF MemberInv, RowStaysHome
<1> QED BY <1>1, <1>3, <1>4 DEF Administers

\* Administrators keep what is said of members.
LEMMA HomeAdmin ==
  ASSUME MemberInv, IInv, AdminStep
  PROVE  MemberInv'
<1>1. Administers
  BY AdminAdministers
<1>2. /\ UNCHANGED <<sess, config, disk, mem, pc, usedKeys>> /\ created \subseteq created'
      /\ \A c \in Clients : HeldKeys(c)' = HeldKeys(c)
  BY <1>1 DEF Administers, server, settings, agent, HeldKeys
<1>3. ASSUME NEW c \in Clients PROVE AgentStaysHome(c)'
  <2>1. AgentStaysHome(c)
    BY DEF MemberInv
  <2>2. ASSUME disk[c].cert \notin {None, Torn} PROVE Backed(disk[c].cert)'
    <3>1. /\ disk[c].cert \in Cert /\ disk[c].cert.key \in HeldKeys(c)
          /\ disk[c].cert.ws = config[c] /\ Backed(disk[c].cert)
      BY <2>1, <2>2, HeldFacts DEF AgentStaysHome
    <3>2. workspaces'[disk[c].cert.ws] # None => devices'[disk[c].cert.key] # None
      BY <1>1, <3>1, BackedStays
    <3> QED BY <1>2, <3>2 DEF Backed, Live
  <2>3. ASSUME pc[c] \in Saving PROVE Backed(mem[c].cert)'
    <3>1. /\ mem[c].cert \in Cert /\ mem[c].cert.key \in HeldKeys(c)
          /\ mem[c].cert.ws = config[c] /\ Backed(mem[c].cert)
      BY <2>1, <2>3, HeldFacts DEF AgentStaysHome
    <3>2. workspaces'[mem[c].cert.ws] # None => devices'[mem[c].cert.key] # None
      BY <1>1, <3>1, BackedStays
    <3> QED BY <1>2, <3>2 DEF Backed, Live
  <2> QED BY <1>2, <2>1, <2>2, <2>3 DEF AgentStaysHome
<1>4. ASSUME NEW s \in Sessions PROVE TaskStaysHome(s)'
  <2>1. TaskStaysHome(s)
    BY DEF MemberInv
  <2>2. ASSUME sess[s].st \in {"enroll_inserted", "enroll_answered"}, sess[s].owner # None
        PROVE  Backed(sess[s].cert)'
    <3>1. sess[s].st \in Issued
      BY <2>2 DEF Issued
    <3>2. /\ sess[s].owner \in Clients /\ sess[s].cert \in Cert
          /\ sess[s].cert.key = sess[s].key /\ sess[s].key \in HeldKeys(sess[s].owner)
      BY <2>2, <3>1, OwnedTask
    <3>3. sess[s].cert.ws = config[sess[s].owner] /\ Backed(sess[s].cert)
      BY <2>1, <2>2, <3>1, <3>2 DEF TaskStaysHome
    <3>4. workspaces'[sess[s].cert.ws] # None => devices'[sess[s].cert.key] # None
      BY <1>1, <3>2, <3>3, BackedStays
    <3> QED BY <1>2, <3>4 DEF Backed, Live
  <2> QED BY <1>2, <2>1, <2>2 DEF TaskStaysHome
<1>5. \A k \in Keys : RowStaysHome(k)'
  <2> SUFFICES ASSUME NEW k \in Keys PROVE RowStaysHome(k)'
    OBVIOUS
  <2>1. devices'[k] # None => devices'[k] = devices[k]
    BY <1>1 DEF Administers
  <2> QED BY <1>2, <2>1, RowHome
<1> QED BY <1>3, <1>4, <1>5 DEF MemberInv

-----------------------------------------------------------------------------
(* Agents and members.                                                     *)

OthersStay(c) ==
  \A d \in Clients : d # c => disk'[d] = disk[d] /\ mem'[d] = mem[d] /\ pc'[d] = pc[d]

\* What an agent does to its own keys and certificates: it keeps those it has,
\* drops some, takes an unused key, or the certificate it was sent.
OwnsMore(c) ==
  /\ config' = config /\ config[c] # None
  /\ usedKeys \subseteq usedKeys'
  /\ HeldKeys(c)' \subseteq HeldKeys(c) \cup (usedKeys' \ usedKeys)
  /\ disk'[c].cert \notin {None, Torn} =>
       disk'[c].cert = disk[c].cert \/ (pc[c] \in Saving /\ disk'[c].cert = mem[c].cert)
  /\ pc'[c] \in Saving =>
       \/ pc[c] \in Saving /\ mem'[c].cert = mem[c].cert
       \/ mem'[c].cert.ws = config[c] /\ Backed(mem'[c].cert)

\* Such a step keeps what is said of agents and rows, and of every task but one
\* that it opens.
LEMMA AgentHome ==
  ASSUME MemberInv, IInv, NEW c \in Clients, OthersStay(c), OwnsMore(c), UNCHANGED db,
         \A t \in Sessions : AgentTouches(t),
         \A t \in Sessions : sess'[t].st = "enroll_req" /\ sess'[t] # sess[t] =>
             sess'[t] = [sess[t] EXCEPT !.owner = None] \/ TaskStaysHome(t)'
  PROVE  MemberInv'
<1>1. UNCHANGED <<workspaces, created, devices>>
  BY DEF db
<1>2. \A d \in Clients : d # c => HeldKeys(d)' = HeldKeys(d)
  BY DEF OthersStay, HeldKeys
<1>3. \A d \in Clients : HeldKeys(d) \subseteq usedKeys
  BY DEF MemberInv, AgentStaysHome
<1>4. \A d \in Clients : HeldKeys(d)' \cap usedKeys \subseteq HeldKeys(d)
  BY <1>2 DEF OwnsMore
<1>5. \A d \in Clients : HeldKeys(d)' \subseteq usedKeys'
  BY <1>2, <1>3 DEF OwnsMore
<1>6. \A d, e \in Clients : d # e => HeldKeys(d)' \cap HeldKeys(e)' = {}
  <2> SUFFICES ASSUME NEW d \in Clients, NEW e \in Clients, d # e,
                      NEW k \in HeldKeys(d)' \cap HeldKeys(e)'
               PROVE  FALSE
    OBVIOUS
  <2>1. HeldKeys(d) \cap HeldKeys(e) = {}
    BY DEF MemberInv, AgentStaysHome
  <2>2. k \in HeldKeys(d) \/ (d = c /\ k \notin usedKeys)
    BY <1>2 DEF OwnsMore
  <2>3. k \in HeldKeys(e) \/ (e = c /\ k \notin usedKeys)
    BY <1>2 DEF OwnsMore
  <2> QED BY <1>3, <2>1, <2>2, <2>3
<1>7. ASSUME NEW d \in Clients PROVE AgentStaysHome(d)'
  <2>1. AgentStaysHome(d) /\ AgentStaysHome(c)
    BY DEF MemberInv
  <2>2. config'[d] # None => config'[d] \in created'
    BY <1>1, <2>1 DEF AgentStaysHome, OwnsMore
  <2>3. HeldKeys(d)' # {} => config'[d] # None
    BY <1>2, <2>1 DEF AgentStaysHome, OwnsMore
  <2>4. ASSUME disk'[d].cert \notin {None, Torn}
        PROVE  /\ disk'[d].cert.ws = config'[d]
               /\ workspaces'[disk'[d].cert.ws] # None => devices'[disk'[d].cert.key] # None
    <3>1. disk'[d].cert.ws = config[d] /\ Backed(disk'[d].cert)
      <4>1. CASE d # c
        BY <2>1, <2>4, <4>1 DEF AgentStaysHome, OthersStay
      <4>2. CASE d = c
        BY <2>1, <2>4, <4>2 DEF AgentStaysHome, OwnsMore
      <4> QED BY <4>1, <4>2
    <3> QED BY <1>1, <3>1 DEF Backed, Live, OwnsMore
  <2>5. ASSUME pc'[d] \in Saving
        PROVE  /\ mem'[d].cert.ws = config'[d]
               /\ workspaces'[mem'[d].cert.ws] # None => devices'[mem'[d].cert.key] # None
    <3>1. mem'[d].cert.ws = config[d] /\ Backed(mem'[d].cert)
      <4>1. CASE d # c
        BY <2>1, <2>5, <4>1 DEF AgentStaysHome, OthersStay
      <4>2. CASE d = c
        BY <2>1, <2>5, <4>2 DEF AgentStaysHome, OwnsMore
      <4> QED BY <4>1, <4>2
    <3> QED BY <1>1, <3>1 DEF Backed, Live, OwnsMore
  <2> QED BY <1>5, <1>6, <2>2, <2>3, <2>4, <2>5 DEF AgentStaysHome, Backed, Live
<1>8. ASSUME NEW t \in Sessions PROVE TaskStaysHome(t)'
  <2>1. sess[t] \in Task /\ AgentTouches(t)
    BY TaskTypes DEF IInv
  <2>2. CASE sess'[t].st \notin Enrolling
    BY <2>2 DEF TaskStaysHome, Enrolling, Issued
  <2>3. CASE sess'[t] = sess[t]
    BY <1>1, <1>4, <2>3, TaskHome DEF OwnsMore
  <2>4. CASE sess'[t] = [sess[t] EXCEPT !.owner = None]
    <3>1. /\ sess'[t].st = sess[t].st /\ sess'[t].key = sess[t].key /\ sess'[t].ws = sess[t].ws
          /\ sess'[t].cert = sess[t].cert /\ sess'[t].owner = None
      BY <2>1, <2>4 DEF Task
    <3> QED BY <1>1, <1>4, <3>1, TaskHome DEF OwnsMore
  <2>5. CASE sess'[t] = Free
    BY <2>2, <2>5 DEF Free, Enrolling, Issued
  <2>6. CASE sess'[t].st \in {"enroll_req", "checkin_req"}
    BY <2>2, <2>3, <2>4, <2>6 DEF Enrolling, Issued
  <2> QED BY <2>1, <2>3, <2>4, <2>5, <2>6 DEF AgentTouches
<1>9. \A k \in Keys : RowStaysHome(k)'
  BY <1>1, <1>4, RowHome DEF OwnsMore
<1> QED BY <1>7, <1>8, <1>9 DEF MemberInv

\* The agent's own files and memory after an update.
LEMMA OthersUpdate ==
  ASSUME IInv, NEW c \in Clients, LocalAgentStep(c) \/ LeavingStep(c) \/ ConnectingStep(c)
  PROVE  OthersStay(c)
<1>1. disk \in [Clients -> Files] /\ mem \in [Clients -> Memory] /\ pc \in [Clients -> Location]
  BY AgentFacts
<1>2. CASE LocalAgentStep(c)
  <2> USE DEF Go, OthersStay
  <2>1. CASE StartReenroll(c)
    BY <1>1, <2>1 DEF StartReenroll
  <2>2. CASE \E w \in Workspaces : Configure(c, w)
    BY <1>1, <2>2 DEF Configure, agent
  <2>3. CASE Start(c)
    BY <1>1, <2>3 DEF Start
  <2>4. CASE Decide(c)
    BY <1>1, <2>4 DEF Decide
  <2>5. CASE CheckinRefused(c)
    BY <1>1, <2>5 DEF CheckinRefused
  <2>6. CASE Wake(c)
    BY <1>1, <2>6 DEF Wake
  <2>7. CASE ClearEnrollment(c)
    BY <1>1, <2>7 DEF ClearEnrollment
  <2>8. CASE LoadKey(c)
    BY <1>1, <2>8 DEF LoadKey
  <2>9. CASE GenerateKey(c)
    BY <1>1, <2>9 DEF GenerateKey
  <2>10. CASE WriteKey(c)
    BY <1>1, <2>10 DEF WriteKey
  <2>11. CASE SaveCertificate(c)
    BY <1>1, <2>11 DEF SaveCertificate
  <2>12. CASE SaveWorkspacePublicKey(c)
    BY <1>1, <2>12 DEF SaveWorkspacePublicKey
  <2>13. CASE StartScheduler(c)
    BY <1>1, <2>13 DEF StartScheduler
  <2>14. CASE SaveSynced(c) \/ SaveSyncedFails(c)
    BY <1>1, <2>14 DEF SaveSynced, SaveSyncedFails
  <2> QED BY <1>2, <2>1, <2>2, <2>3, <2>4, <2>5, <2>6, <2>7, <2>8, <2>9, <2>10, <2>11, <2>12,
             <2>13, <2>14 DEF LocalAgentStep, UserStep
<1>3. CASE LeavingStep(c)
  <2>1. UNCHANGED disk /\ (Exit(c) \/ \E l \in LostAt : Go(c, l) /\ UNCHANGED mem)
    BY <1>3 DEF LeavingStep, KeyUnreadable, EnrollRefused, ClientCrash, Disconnect, GoesSilent,
       EnrollError, LostAt
  <2> QED BY <1>1, <2>1 DEF Exit, Go, OthersStay
<1>4. CASE ConnectingStep(c)
  <2>1. UNCHANGED disk /\ (\E l \in Location : Go(c, l)) /\
        (UNCHANGED mem \/ \E m : mem' = [mem EXCEPT ![c] = m])
    BY <1>4 DEF ConnectingStep, EnrollConnect, EnrollReceive, CheckinConnect,
       CheckinReceive, CheckinError, Location
  <2> QED BY <1>1, <2>1 DEF Go, OthersStay
<1> QED BY <1>2, <1>3, <1>4

\* The agent's steps on its own files: what it reads, writes and removes.
LEMMA LocalOwns ==
  ASSUME IInv, NEW c \in Clients, LocalAgentStep(c), config' = config,
         ~\E w \in Workspaces : Configure(c, w)
  PROVE  OwnsMore(c)
<1> USE DEF Go, Saving
<1>1. /\ disk \in [Clients -> Files] /\ mem \in [Clients -> Memory] /\ pc \in [Clients -> Location]
      /\ AgentSound(c) /\ config \in [Clients -> Workspaces \cup {None}]
  BY AgentFacts
<1>2. disk[c] \in Files /\ mem[c] \in Memory
  BY <1>1
<1>3. config[c] # None
  <2>1. CASE pc[c] # "off"
    BY <1>1, <2>1 DEF AgentSound
  <2>2. CASE pc[c] = "off"
    BY <2>2 DEF LocalAgentStep, UserStep, Start, StartReenroll, Configured, ClearEnrollment,
       LoadKey, GenerateKey, WriteKey, Decide, SaveCertificate, SaveWorkspacePublicKey,
       StartScheduler, CheckinRefused, SaveSynced, SaveSyncedFails, Wake
  <2> QED BY <2>1, <2>2
<1>4. \/ /\ UNCHANGED usedKeys /\ HeldKeys(c)' \subseteq HeldKeys(c)
         /\ disk'[c].cert \notin {None, Torn} =>
              disk'[c].cert = disk[c].cert \/ (pc[c] \in Saving /\ disk'[c].cert = mem[c].cert)
         /\ pc'[c] \in Saving => pc[c] \in Saving /\ mem'[c].cert = mem[c].cert
      \/ GenerateKey(c)
  <2>1. CASE StartReenroll(c) \/ Start(c) \/ Decide(c) \/ CheckinRefused(c) \/ Wake(c)
    <3>1. UNCHANGED <<usedKeys, disk, mem>> /\ pc'[c] \notin Saving
      BY <1>1, <2>1 DEF StartReenroll, Start, Decide, CheckinRefused, Wake
    <3> QED BY <3>1 DEF HeldKeys
  <2>2. CASE SaveSynced(c) \/ SaveSyncedFails(c)
    <3>1. UNCHANGED <<usedKeys, disk, mem>> /\ pc'[c] \notin Saving
      BY <1>1, <2>2 DEF SaveSynced, SaveSyncedFails
    <3> QED BY <3>1 DEF HeldKeys
  <2>3. CASE ClearEnrollment(c)
    <3>1. /\ UNCHANGED <<usedKeys, mem>> /\ pc'[c] \notin Saving
          /\ \/ disk' = [disk EXCEPT ![c].cert = None]
             \/ disk' = [disk EXCEPT ![c].pin = None]
             \/ disk' = [disk EXCEPT ![c].key = None]
      BY <1>1, <2>3 DEF ClearEnrollment
    <3>2. /\ disk'[c].cert \in {None, disk[c].cert}
          /\ disk'[c].key \in {None, disk[c].key}
      BY <1>1, <1>2, <3>1 DEF Files
    <3> QED BY <3>1, <3>2 DEF HeldKeys
  <2>4. CASE LoadKey(c) \/ WriteKey(c)
    <3>1. /\ UNCHANGED usedKeys /\ pc'[c] \notin Saving
          /\ \/ mem' = [mem EXCEPT ![c].key = disk[c].key] /\ disk' = disk
             \/ disk' = [disk EXCEPT ![c].key = mem[c].key] /\ mem' = mem
      BY <1>1, <2>4 DEF LoadKey, WriteKey
    <3>2. /\ disk'[c].cert = disk[c].cert
          /\ disk'[c].key \in {disk[c].key, mem[c].key} /\ mem'[c].key \in {disk[c].key, mem[c].key}
      BY <1>1, <1>2, <3>1 DEF Files, Memory
    <3> QED BY <3>1, <3>2 DEF HeldKeys
  <2>5. CASE SaveCertificate(c)
    <3>1. /\ UNCHANGED <<usedKeys, mem>> /\ pc[c] \in Saving
          /\ disk' = [disk EXCEPT ![c].cert = Torn] \/ disk' = [disk EXCEPT ![c].cert = mem[c].cert]
      BY <1>1, <2>5 DEF SaveCertificate
    <3>2. disk'[c].cert \in {Torn, mem[c].cert} /\ disk'[c].key = disk[c].key
      BY <1>1, <1>2, <3>1 DEF Files
    <3> QED BY <3>1, <3>2 DEF HeldKeys
  <2>6. CASE SaveWorkspacePublicKey(c)
    <3>1. /\ UNCHANGED <<usedKeys, mem>> /\ pc[c] \in Saving
          /\ disk' = [disk EXCEPT ![c].pin = Torn] \/ disk' = [disk EXCEPT ![c].pin = mem[c].pin]
      BY <1>1, <2>6 DEF SaveWorkspacePublicKey
    <3>2. disk'[c].cert = disk[c].cert /\ disk'[c].key = disk[c].key
      BY <1>1, <1>2, <3>1 DEF Files
    <3> QED BY <3>1, <3>2 DEF HeldKeys
  <2>7. CASE StartScheduler(c)
    <3>1. /\ UNCHANGED <<usedKeys, disk>> /\ pc'[c] \notin Saving
          /\ mem' = [mem EXCEPT ![c].pin = disk[c].pin]
      BY <1>1, <2>7 DEF StartScheduler
    <3>2. mem'[c].key = mem[c].key
      BY <1>1, <1>2, <3>1 DEF Memory
    <3> QED BY <3>1, <3>2 DEF HeldKeys
  <2> QED BY <2>1, <2>2, <2>3, <2>4, <2>5, <2>6, <2>7 DEF LocalAgentStep, UserStep
<1>5. CASE GenerateKey(c)
  <2>1. PICK k \in Keys \ usedKeys : usedKeys' = usedKeys \cup {k} /\ mem' = [mem EXCEPT ![c].key = k]
    BY <1>5 DEF GenerateKey
  <2>2. disk' = [disk EXCEPT ![c].key = Torn] /\ pc'[c] \notin Saving
    BY <1>1, <1>5 DEF GenerateKey
  <2>3. mem'[c].key = k /\ disk'[c].key = Torn /\ disk'[c].cert = disk[c].cert
    BY <1>1, <1>2, <2>1, <2>2 DEF Files, Memory
  <2>4. HeldKeys(c)' \subseteq HeldKeys(c) \cup (usedKeys' \ usedKeys)
    BY <2>1, <2>3 DEF HeldKeys
  <2> QED BY <1>3, <2>1, <2>2, <2>3, <2>4 DEF OwnsMore
<1> QED BY <1>3, <1>4, <1>5 DEF OwnsMore

\* The agent's steps on its own files keep what is said of members.
LEMMA HomeLocal ==
  ASSUME MemberInv, IInv, NEW c \in Clients, LocalAgentStep(c), config' = config,
         ~\E w \in Workspaces : Configure(c, w)
  PROVE  MemberInv'
<1>1. UNCHANGED <<db, sess>>
  BY DEF LocalAgentStep, UserStep, Start, StartReenroll, Configure, ClearEnrollment,
     LoadKey, GenerateKey, WriteKey, Decide, SaveCertificate, SaveWorkspacePublicKey,
     StartScheduler, CheckinRefused, SaveSynced, SaveSyncedFails, Wake, server
<1>2. \A t \in Sessions : AgentTouches(t)
  BY <1>1 DEF AgentTouches
<1> QED BY <1>1, <1>2, LocalOwns, OthersUpdate, AgentHome

\* The agent that stops, or loses its connection, keeps its files.
LEMMA HomeLeaving ==
  ASSUME MemberInv, IInv, NEW c \in Clients, LeavingStep(c)
  PROVE  MemberInv'
<1>1. /\ UNCHANGED <<db, disk, config, usedKeys>> /\ sess' = Orphaned(c)
      /\ Exit(c) \/ \E l \in LostAt : Go(c, l) /\ UNCHANGED mem
      /\ pc[c] # "off"
  BY DEF LeavingStep, KeyUnreadable, EnrollRefused, ClientCrash, Disconnect,
     GoesSilent, EnrollError, LostAt, Exit, settings
<1>2. /\ mem \in [Clients -> Memory] /\ pc \in [Clients -> Location] /\ AgentSound(c)
  BY AgentFacts
<1>3. pc'[c] \notin Saving /\ mem'[c].key \in {None, mem[c].key}
  BY <1>1, <1>2 DEF Exit, Go, Saving, NoMem, LostAt
<1>4. OwnsMore(c)
  <2>1. config[c] # None
    BY <1>1, <1>2 DEF AgentSound
  <2>2. HeldKeys(c)' \subseteq HeldKeys(c)
    BY <1>1, <1>3 DEF HeldKeys
  <2> QED BY <1>1, <1>3, <2>1, <2>2 DEF OwnsMore
<1>5. \A t \in Sessions : AgentTouches(t) /\ sess'[t] \in {sess[t], Free, [sess[t] EXCEPT !.owner = None]}
  BY <1>1 DEF AgentTouches, Orphaned
<1>6. \A t \in Sessions : sess'[t].st = "enroll_req" /\ sess'[t] # sess[t] =>
             sess'[t] = [sess[t] EXCEPT !.owner = None]
  BY <1>5 DEF Free
<1> QED BY <1>1, <1>4, <1>5, <1>6, OthersUpdate, AgentHome

\* Connecting opens a task for a key of this machine and for its workspace;
\* the certificate received is the one asked for.
LEMMA HomeConnecting ==
  ASSUME MemberInv, IInv, NEW c \in Clients, ConnectingStep(c)
  PROVE  MemberInv'
<1>1. PICK s \in Sessions : \/ EnrollConnect(c, s) \/ EnrollReceive(c, s)
                            \/ CheckinConnect(c, s) \/ CheckinReceive(c, s) \/ CheckinError(c, s)
  BY DEF ConnectingStep
<1>2. /\ UNCHANGED <<db, disk, config, usedKeys>>
  BY <1>1 DEF EnrollConnect, EnrollReceive, CheckinConnect, CheckinReceive, CheckinError, settings
<1>3. /\ mem \in [Clients -> Memory] /\ pc \in [Clients -> Location] /\ AgentSound(c)
      /\ mem[c] \in Memory /\ sess \in [Sessions -> Task]
  BY AgentFacts DEF IInv, TypeOK
<1>4. OthersStay(c) /\ \A t \in Sessions : AgentTouches(t)
  BY OthersUpdate, AgentTouchesTasks
<1>5. config[c] # None
  <2>1. pc[c] # "off"
    <3>1. CASE sess[s].owner = c
      <4>1. pc[c] \in {"enrolling", "checking"}
        BY <3>1, AbsentIsNoValue DEF IInv, OwnerWaits
      <4> QED BY <4>1
    <3> QED BY <1>1, <3>1 DEF EnrollConnect, EnrollReceive, CheckinConnect, CheckinReceive, CheckinError
  <2> QED BY <1>3, <2>1 DEF AgentSound
<1>6. mem'[c].key = mem[c].key
  <2>1. CASE EnrollConnect(c, s) \/ EnrollReceive(c, s) \/ CheckinReceive(c, s)
    BY <1>3, <2>1 DEF EnrollConnect, EnrollReceive, CheckinReceive, Memory
  <2> QED BY <1>1, <2>1 DEF CheckinConnect, CheckinError
<1>7. HeldKeys(c)' = HeldKeys(c)
  BY <1>2, <1>6 DEF HeldKeys
<1>8. CASE EnrollReceive(c, s)
  <2>1. sess[s].owner = c /\ sess[s].st \in Issued /\ sess[s].st = "enroll_answered"
    BY <1>8 DEF EnrollReceive, Issued
  <2>2. sess[s].key \in HeldKeys(c)
    BY <2>1, OwnedTask, AbsentIsNoValue
  <2>3. sess[s].cert.ws = config[c] /\ Backed(sess[s].cert)
    BY <2>1, <2>2, AbsentIsNoValue DEF MemberInv, TaskStaysHome
  <2>4. mem'[c].cert = sess[s].cert
    BY <1>3, <1>8 DEF EnrollReceive, Memory
  <2>5. OwnsMore(c)
    BY <1>2, <1>5, <1>7, <2>3, <2>4 DEF OwnsMore
  <2>6. \A t \in Sessions : sess'[t].st = "enroll_req" => sess'[t] = sess[t]
    BY <1>3, <1>8 DEF EnrollReceive, Free
  <2> QED BY <1>2, <1>4, <2>5, <2>6, AgentHome
<1>9. CASE ~EnrollReceive(c, s)
  <2>1. pc'[c] \notin Saving
    BY <1>1, <1>3, <1>9 DEF EnrollConnect, CheckinConnect, CheckinReceive, CheckinError, Go, Saving
  <2>2. OwnsMore(c)
    BY <1>2, <1>5, <1>7, <2>1 DEF OwnsMore
  <2>3. ASSUME NEW t \in Sessions, sess'[t].st = "enroll_req", sess'[t] # sess[t]
        PROVE  TaskStaysHome(t)'
    <3>1. EnrollConnect(c, s) /\ t = s
      <4>1. CASE CheckinConnect(c, s)
        BY <1>3, <2>3, <4>1 DEF CheckinConnect, Open, Free
      <4>2. CASE CheckinReceive(c, s) \/ CheckinError(c, s)
        BY <1>3, <2>3, <4>2 DEF CheckinReceive, CheckinError, Free
      <4>3. CASE EnrollConnect(c, s)
        BY <1>3, <2>3, <4>3 DEF EnrollConnect, Open
      <4> QED BY <1>1, <1>9, <4>1, <4>2, <4>3
    <3>2. sess'[s] = [Free EXCEPT !.st = "enroll_req", !.owner = c, !.key = mem[c].key, !.ws = config[c]]
      BY <1>3, <3>1 DEF EnrollConnect, Open
    <3>3. sess'[s].st = "enroll_req" /\ sess'[s].key = mem[c].key /\ sess'[s].ws = config[c]
      BY <3>2 DEF Free
    <3>4. mem[c].key \in HeldKeys(c)
      <4>1. mem[c].key # None /\ mem[c].key \in Keys \cup {None}
        BY <1>3, <3>1 DEF AgentSound, EnrollConnect, HoldsKey, Memory
      <4> QED BY <4>1, AbsentIsNoValue DEF HeldKeys
    <3>5. \A d \in Clients : HeldKeys(d)' = HeldKeys(d)
      BY <1>2, <1>4, <1>7 DEF OthersStay, HeldKeys
    <3>6. mem[c].key \in usedKeys /\ \A d \in Clients : d # c => mem[c].key \notin HeldKeys(d)
      BY <3>4 DEF MemberInv, AgentStaysHome
    <3> QED BY <1>2, <3>1, <3>3, <3>5, <3>6 DEF TaskStaysHome, Issued
  <2> QED BY <1>2, <1>4, <2>2, <2>3, AgentHome
<1> QED BY <1>8, <1>9

\* A machine is configured before it holds anything, and afterwards for the same
\* workspace.
LEMMA HomeConfigure ==
  ASSUME MemberInv, IInv, ~Reconfigure, NEW c \in Clients, NEW w \in Workspaces, Configure(c, w),
         config' # config
  PROVE  MemberInv'
<1>1. /\ pc[c] = "off" /\ w \in created /\ config[c] = None /\ config' = [config EXCEPT ![c] = w]
      /\ UNCHANGED <<workspaces, created, devices, sess, disk, mem, pc, usedKeys>>
  <2>1. config[c] \in {None, w} /\ config' = [config EXCEPT ![c] = w]
    BY DEF Configure
  <2>2. config[c] # w
    BY <2>1, AgentFacts
  <2> QED BY <2>1, <2>2 DEF Configure, db, server, agent
<1>2. config'[c] = w /\ \A d \in Clients : d # c => config'[d] = config[d]
  BY <1>1, AgentFacts
<1>3. HeldKeys(c) = {} /\ \A d \in Clients : HeldKeys(d)' = HeldKeys(d)
  BY <1>1 DEF MemberInv, AgentStaysHome, HeldKeys
<1>4. disk[c].cert \in {None, Torn} /\ pc[c] \notin Saving
  BY <1>1, <1>3, HeldFacts DEF Saving
<1>5. ASSUME NEW d \in Clients PROVE AgentStaysHome(d)'
  <2>1. AgentStaysHome(d)
    BY DEF MemberInv
  <2>2. CASE d = c
    BY <1>1, <1>2, <1>3, <1>4, <2>2 DEF AgentStaysHome
  <2>3. CASE d # c
    BY <1>1, <1>2, <1>3, <2>1, <2>3 DEF AgentStaysHome, Backed, Live
  <2> QED BY <2>2, <2>3
<1>6. ASSUME NEW s \in Sessions PROVE TaskStaysHome(s)'
  <2>1. TaskStaysHome(s)
    BY DEF MemberInv
  <2> QED BY <1>1, <1>2, <1>3, <2>1 DEF TaskStaysHome, Backed, Live
<1>7. ASSUME NEW k \in Keys PROVE RowStaysHome(k)'
  <2>1. RowStaysHome(k)
    BY DEF MemberInv
  <2> QED BY <1>1, <1>2, <1>3, <2>1 DEF RowStaysHome
<1> QED BY <1>5, <1>6, <1>7 DEF MemberInv

\* Giving the same settings again, or failing to save them, changes nothing here.
LEMMA HomeConfigureAgain ==
  ASSUME MemberInv, NEW c \in Clients, NEW w \in Workspaces, Configure(c, w), config' = config
  PROVE  MemberInv'
<1>1. UNCHANGED <<workspaces, created, devices, sess, disk, mem, pc, usedKeys, config>>
  BY DEF Configure, db, server, agent
<1>2. \A d \in Clients : HeldKeys(d)' = HeldKeys(d)
  BY <1>1 DEF HeldKeys
<1>3. ASSUME NEW d \in Clients PROVE AgentStaysHome(d)'
  BY <1>1, <1>2 DEF MemberInv, AgentStaysHome, Backed, Live
<1>4. ASSUME NEW s \in Sessions PROVE TaskStaysHome(s)'
  BY <1>1, <1>2 DEF MemberInv, TaskStaysHome, Backed, Live
<1>5. ASSUME NEW k \in Keys PROVE RowStaysHome(k)'
  BY <1>1, <1>2 DEF MemberInv, RowStaysHome
<1> QED BY <1>3, <1>4, <1>5 DEF MemberInv

\* Every step of an agent, its user or its faults keeps what is said of members.
LEMMA HomeAgent ==
  ASSUME MemberInv, IInv, ~Reconfigure, NEW c \in Clients,
         AgentStep(c) \/ UserStep(c) \/ AgentFault(c)
  PROVE  MemberInv'
<1>1. CASE \E w \in Workspaces : Configure(c, w)
  BY <1>1, HomeConfigure, HomeConfigureAgain
<1>2. CASE LocalAgentStep(c) /\ ~\E w \in Workspaces : Configure(c, w)
  <2>1. config' = config
    BY <1>2 DEF LocalAgentStep, UserStep, Start, StartReenroll, ClearEnrollment,
       LoadKey, GenerateKey, WriteKey, Decide, SaveCertificate, SaveWorkspacePublicKey,
       StartScheduler, CheckinRefused, SaveSynced, SaveSyncedFails, Wake, settings
  <2> QED BY <1>2, <2>1, HomeLocal
<1> QED BY <1>1, <1>2, AgentStepKinds, HomeLeaving, HomeConnecting

\* A crash of the server ends tasks: no promise is left for them to keep.
LEMMA HomeServerCrash ==
  ASSUME MemberInv, IInv, ServerCrash
  PROVE  MemberInv'
<1>1. /\ UNCHANGED <<db, settings, agent>> /\ UNCHANGED <<workspaces, config, usedKeys, devices, disk, mem>>
      /\ \A c \in Clients : HeldKeys(c)' = HeldKeys(c)
  BY DEF ServerCrash, db, settings, agent, HeldKeys
<1>2. ASSUME NEW s \in Sessions PROVE TaskStaysHome(s)'
  <2>1. sess'[s] = sess[s] \/ sess'[s] = Failed(s)
    BY DEF ServerCrash
  <2>2. CASE sess'[s] = sess[s]
    BY <1>1, <2>2, TaskHome
  <2>3. CASE sess'[s] = Failed(s)
    <3>1. sess'[s].st \in {"free", "failed"}
      BY <2>3, FailedTask DEF IInv
    <3> QED BY <3>1 DEF TaskStaysHome, Issued
  <2> QED BY <2>1, <2>2, <2>3
<1> QED BY <1>1, <1>2, QuietServerHome

\* A task that fails, or whose client is gone, ends.
LEMMA HomeTaskEnds ==
  ASSUME MemberInv, IInv, NEW s \in Sessions, TaskFails(s) \/ DropOrphan(s)
  PROVE  MemberInv'
<1>1. UNCHANGED <<db, settings, agent>> /\ sess' = [sess EXCEPT ![s] = Failed(s)]
  BY DEF TaskFails, DropOrphan, Failed
<1> QED BY <1>1, FailedHome

\* Starting the server, and doing nothing, concerns no member.
LEMMA HomeStart ==
  ASSUME MemberInv, IInv, ServerStart \/ LoadIdentity \/ StoreIdentity \/ UNCHANGED vars
  PROVE  MemberInv'
<1>1. /\ UNCHANGED <<workspaces, created, devices, sess, config, disk, mem, pc, usedKeys>>
      /\ \A c \in Clients : HeldKeys(c)' = HeldKeys(c)
  BY DEF ServerStart, LoadIdentity, StoreIdentity, vars, db, server, settings, agent, HeldKeys
<1>2. \A c \in Clients : AgentStaysHome(c)'
  BY <1>1, AgentsStayHome
<1>3. \A s \in Sessions : TaskStaysHome(s)'
  BY <1>1, TaskHome
<1>4. \A k \in Keys : RowStaysHome(k)'
  BY <1>1, RowHome
<1> QED BY <1>2, <1>3, <1>4 DEF MemberInv

\* There are no members yet.
LEMMA MemberInit == Init => MemberInv
<1> SUFFICES ASSUME Init PROVE MemberInv
  OBVIOUS
<1>1. \A c \in Clients : HeldKeys(c) = {}
  BY DEF Init, HeldKeys, NoMem
<1>2. \A c \in Clients : AgentStaysHome(c)
  BY <1>1 DEF Init, AgentStaysHome, Saving
<1>3. \A s \in Sessions : TaskStaysHome(s)
  BY DEF Init, Free, TaskStaysHome, Issued
<1>4. \A k \in Keys : RowStaysHome(k)
  BY DEF Init, RowStaysHome
<1> QED BY <1>2, <1>3, <1>4 DEF MemberInv

\* Every step keeps MemberInv while nobody moves a machine.
LEMMA StepMemberInv == IInv /\ MemberInv /\ ~Reconfigure /\ [Next]_vars => MemberInv'
<1> SUFFICES ASSUME IInv, MemberInv, ~Reconfigure, [Next]_vars PROVE MemberInv'
  OBVIOUS
<1>1. CASE ServerStep
  BY <1>1, HomeStart, HomeEnrollFind, HomeEnrollInsert, HomeEnrollAnswer, HomeCheckin DEF ServerStep
<1>2. CASE AdminStep
  BY <1>2, HomeAdmin
<1>3. ASSUME NEW c \in Clients, AgentStep(c) \/ UserStep(c) \/ AgentFault(c)
      PROVE  MemberInv'
  BY <1>3, HomeAgent
<1>4. CASE Fault
  BY <1>3, <1>4, HomeServerCrash, HomeTaskEnds DEF Fault, AgentFault
<1>5. CASE UNCHANGED vars
  BY <1>5, HomeStart
<1> QED BY <1>1, <1>2, <1>3, <1>4, <1>5 DEF Next

-----------------------------------------------------------------------------
(* Devices that stay where they are.                                       *)

\* What a step may do without disturbing OneHome: an enrollment goes on for its
\* key and workspace, or ends, and rows stay with their workspace or go.
StaysPut(t) ==
  sess'[t].st \in Enrolling =>
    sess[t].st \in Enrolling /\ sess'[t].key = sess[t].key /\ sess'[t].ws = sess[t].ws

RowStaysPut(k) ==
  devices'[k] # None => devices[k] # None /\ devices'[k].cert.ws = devices[k].cert.ws

\* The home of a row or of another task, as one of them has it.
LEMMA HomesAgree ==
  ASSUME OneHome, IInv, NEW s \in Sessions, sess[s].st \in Enrolling
  PROVE  /\ sess[s].key \in Keys
         /\ devices[sess[s].key] # None => devices[sess[s].key].cert.ws = sess[s].ws
         /\ \A t \in Sessions : sess[t].st \in Enrolling /\ sess[t].key = sess[s].key =>
                                sess[t].ws = sess[s].ws
<1>1. sess[s].key \in Keys
  BY TaskTypes DEF IInv, TaskSound, Enrolling, Working
<1> QED BY <1>1 DEF OneHome, Enrolling

\* Such a step keeps OneHome.
LEMMA EasyStepHomes ==
  ASSUME OneHome, IInv, \A t \in Sessions : StaysPut(t), \A k \in Keys : RowStaysPut(k)
  PROVE  OneHome'
<1>1. ASSUME NEW s \in Sessions, sess'[s].st \in Enrolling
      PROVE  /\ devices'[sess'[s].key] # None => devices'[sess'[s].key].cert.ws = sess'[s].ws
             /\ \A t \in Sessions : sess'[t].st \in Enrolling /\ sess'[t].key = sess'[s].key =>
                                    sess'[t].ws = sess'[s].ws
  <2>1. sess[s].st \in Enrolling /\ sess'[s].key = sess[s].key /\ sess'[s].ws = sess[s].ws
    BY <1>1 DEF StaysPut
  <2>2. sess[s].key \in Keys
    BY <2>1, HomesAgree
  <2>3. devices'[sess[s].key] # None => devices'[sess[s].key].cert.ws = sess[s].ws
    BY <2>1, <2>2, HomesAgree DEF RowStaysPut
  <2>4. \A t \in Sessions : sess'[t].st \in Enrolling /\ sess'[t].key = sess[s].key =>
                             sess'[t].ws = sess[s].ws
    BY <2>1, HomesAgree DEF StaysPut
  <2> QED BY <2>1, <2>3, <2>4
<1> QED BY <1>1 DEF OneHome, Enrolling

\* A step of one task that ends it, or leaves its key and workspace alone.
LEMMA OneTaskStaysPut ==
  ASSUME OneHome, IInv, NEW s \in Sessions, OneTask(s), StaysPut(s),
         \A k \in Keys : RowStaysPut(k)
  PROVE  OneHome'
  BY EasyStepHomes DEF OneTask, StaysPut

LEMMA FailedStaysPut ==
  ASSUME OneHome, IInv, NEW s \in Sessions, sess' = [sess EXCEPT ![s] = Failed(s)],
         UNCHANGED devices
  PROVE  OneHome'
<1>1. OneTask(s) /\ sess'[s].st \in {"free", "failed"}
  BY OneTaskUpdate, FailedTask DEF IInv
<1>2. StaysPut(s)
  BY <1>1 DEF StaysPut, Enrolling, Issued
<1> QED BY <1>1, <1>2, OneTaskStaysPut DEF RowStaysPut

\* The row that an enrollment inserts is for the workspace of the row before it
\* and of every other enrollment of its key.
LEMMA PutEnrollInsert ==
  ASSUME OneHome, MemberInv, IInv, NEW s \in Sessions, EnrollInsert(s)
  PROVE  OneHome' /\ \A k \in Keys : devices[k] # None => RowStaysPut(k)
<1>1. sess[s].st = "enroll_found" /\ sess[s].st \in Issued /\ sess[s].st \in Enrolling
  BY DEF EnrollInsert, Issued, Enrolling
<1>2. /\ sess[s].key \in Keys /\ sess[s].cert \in Cert /\ sess[s].cert.ws = sess[s].ws
      /\ devices \in [Keys -> Row \cup {None}]
  BY <1>1, NumberedTask DEF Numbered, IInv, TypeOK, MemberInv, TaskStaysHome
<1>3. CASE Live(sess[s].cert.ws)
  <2>1. /\ devices' = [devices EXCEPT ![sess[s].key] = Enrolled(devices[sess[s].key], sess[s].cert)]
        /\ sess' = [sess EXCEPT ![s] = [sess[s] EXCEPT !.st = "enroll_inserted"]]
    BY <1>3 DEF EnrollInsert
  <2>2. OneTask(s) /\ sess[s] \in Task /\ sess'[s] = [sess[s] EXCEPT !.st = "enroll_inserted"]
    BY <2>1, OneTaskUpdate
  <2>3. StaysPut(s) /\ sess'[s].key = sess[s].key /\ sess'[s].ws = sess[s].ws
    BY <1>1, <2>2 DEF Task, StaysPut
  <2>4. \A t \in Sessions : StaysPut(t)
    BY <2>2, <2>3 DEF OneTask, StaysPut
  <2>5. devices'[sess[s].key].cert = sess[s].cert
    BY <1>2, <2>1 DEF Enrolled
  <2>6. \A k \in Keys : k # sess[s].key => devices'[k] = devices[k]
    BY <1>2, <2>1
  <2>7. \A k \in Keys : devices[k] # None => RowStaysPut(k)
    BY <1>1, <1>2, <2>5, <2>6, HomesAgree DEF RowStaysPut
  <2>8. ASSUME NEW t \in Sessions, sess'[t].st \in Enrolling
        PROVE  /\ devices'[sess'[t].key] # None => devices'[sess'[t].key].cert.ws = sess'[t].ws
               /\ \A u \in Sessions : sess'[u].st \in Enrolling /\ sess'[u].key = sess'[t].key =>
                                      sess'[u].ws = sess'[t].ws
    <3>1. sess[t].st \in Enrolling /\ sess'[t].key = sess[t].key /\ sess'[t].ws = sess[t].ws
      BY <2>4, <2>8 DEF StaysPut
    <3>2. sess[t].key \in Keys
      BY <3>1, HomesAgree
    <3>3. CASE sess[t].key = sess[s].key
      <4>1. sess[t].ws = sess[s].ws
        BY <1>1, <3>1, <3>3, HomesAgree
      <4> QED BY <1>2, <2>4, <2>5, <3>1, <3>3, <4>1, HomesAgree DEF StaysPut
    <3>4. CASE sess[t].key # sess[s].key
      BY <2>4, <2>6, <3>1, <3>2, <3>4, HomesAgree DEF StaysPut
    <3> QED BY <3>3, <3>4
  <2>9. OneHome'
    BY <2>8 DEF OneHome, Enrolling
  <2> QED BY <2>7, <2>9
<1>4. CASE ~Live(sess[s].cert.ws)
  <2>1. sess' = [sess EXCEPT ![s] = Failed(s)] /\ UNCHANGED devices
    BY <1>4 DEF EnrollInsert
  <2> QED BY <2>1, FailedStaysPut DEF RowStaysPut
<1> QED BY <1>3, <1>4

\* The other handlers touch no home: they go on for the same key, or end.
LEMMA PutHandlers ==
  ASSUME OneHome, IInv, NEW s \in Sessions,
         EnrollFind(s) \/ EnrollAnswer(s) \/ CheckinLookup(s) \/ CheckinAnswer(s)
  PROVE  OneHome' /\ UNCHANGED devices
<1>1. UNCHANGED devices
  BY DEF EnrollFind, EnrollAnswer, CheckinLookup, CheckinAnswer, db
<1>2. sess \in [Sessions -> Task] /\ sess[s] \in Task
  BY TaskTypes DEF IInv, TypeOK
<1>3. CASE sess' = [sess EXCEPT ![s] = Failed(s)]
  BY <1>1, <1>3, FailedStaysPut
<1>4. CASE sess[s].owner = None /\ (EnrollAnswer(s) \/ CheckinAnswer(s))
  <2>1. sess' = [sess EXCEPT ![s] = Failed(s)]
    BY <1>4 DEF EnrollAnswer, CheckinAnswer, Failed
  <2> QED BY <1>1, <1>3, <2>1
<1>5. CASE EnrollFind(s) /\ sess' = [sess EXCEPT ![s] = [sess[s] EXCEPT !.st = "enroll_found", !.cert = NewCert(s)]]
  <2>1. sess[s].st = "enroll_req" /\ sess'[s] = [sess[s] EXCEPT !.st = "enroll_found", !.cert = NewCert(s)]
    BY <1>2, <1>5 DEF EnrollFind
  <2>2. StaysPut(s)
    BY <1>2, <2>1 DEF StaysPut, Task, Enrolling
  <2>3. OneTask(s)
    BY <1>5, OneTaskUpdate
  <2> QED BY <1>1, <2>2, <2>3, OneTaskStaysPut DEF RowStaysPut
<1>6. CASE sess[s].owner # None /\ EnrollAnswer(s)
  <2>1. /\ sess[s].st = "enroll_inserted"
        /\ sess' = [sess EXCEPT ![s] = [sess[s] EXCEPT !.st = "enroll_answered"]]
    BY <1>2, <1>6 DEF EnrollAnswer
  <2>2. StaysPut(s) /\ OneTask(s)
    BY <1>2, <2>1, OneTaskUpdate DEF StaysPut, Task, Enrolling, Issued
  <2> QED BY <1>1, <2>2, OneTaskStaysPut DEF RowStaysPut
<1>7. ASSUME NEW r, sess' = [sess EXCEPT ![s] = r], r.st \in Looked
      PROVE  OneHome'
  <2>1. OneTask(s) /\ sess'[s] = r
    BY <1>7, OneTaskUpdate
  <2>2. StaysPut(s)
    BY <1>7, <2>1 DEF StaysPut, Enrolling, Issued, Looked
  <2> QED BY <1>1, <2>1, <2>2, OneTaskStaysPut DEF RowStaysPut
<1>8. CASE CheckinLookup(s)
  <2> DEFINE r == [sess[s] EXCEPT !.st = "checkin_known", !.cert = devices[sess[s].key].cert]
  <2>1. sess' = [sess EXCEPT ![s] = r] \/ sess' = [sess EXCEPT ![s] = Failed(s)]
    BY <1>8 DEF CheckinLookup
  <2>2. r.st \in Looked
    BY <1>2 DEF Task, Looked
  <2> HIDE DEF r
  <2> QED BY <1>1, <1>3, <1>7, <2>1, <2>2
<1>9. CASE sess[s].owner # None /\ CheckinAnswer(s)
  <2> DEFINE r == [sess[s] EXCEPT !.st = "checkin_answered",
                     !.name = IF Live(sess[s].cert.ws) THEN workspaces[sess[s].cert.ws] ELSE ""]
  <2>1. sess' = [sess EXCEPT ![s] = r]
    BY <1>9 DEF CheckinAnswer
  <2>2. r.st \in Looked
    BY <1>2 DEF Task, Looked
  <2> HIDE DEF r
  <2> QED BY <1>1, <1>7, <2>1, <2>2
<1>10. CASE EnrollFind(s)
  BY <1>3, <1>5, <1>10 DEF EnrollFind
<1> QED BY <1>1, <1>4, <1>6, <1>8, <1>9, <1>10

\* Recording a check-in leaves the certificate of the row as it is.
LEMMA PutCheckinRecord ==
  ASSUME OneHome, IInv, NEW s \in Sessions, CheckinRecord(s)
  PROVE  OneHome' /\ \A k \in Keys : RowStaysPut(k)
<1>1. /\ sess[s] \in Task /\ OneTask(s)
      /\ sess'[s] = [sess[s] EXCEPT !.st = "checkin_recorded"]
  BY OneTaskUpdate DEF CheckinRecord
<1>2. StaysPut(s)
  BY <1>1 DEF StaysPut, Task, Enrolling, Issued
<1>3. ASSUME NEW k \in Keys PROVE RowStaysPut(k)
  <2>1. devices \in [Keys -> Row \cup {None}]
    BY DEF IInv, TypeOK
  <2>2. CASE devices'[k] = devices[k]
    BY <2>2 DEF RowStaysPut
  <2>3. CASE devices[k] # None /\ devices'[k] = [devices[k] EXCEPT !.checked = TRUE]
    <3>1. devices[k] \in Row
      BY <2>1, <2>3
    <3>2. devices'[k].cert = devices[k].cert
      BY <2>3, <3>1 DEF Row
    <3> QED BY <2>3, <3>2 DEF RowStaysPut
  <2> QED BY <2>1, <2>2, <2>3 DEF CheckinRecord
<1> QED BY <1>1, <1>2, <1>3, OneTaskStaysPut

\* A step of an agent opens an enrollment for its own home only.
LEMMA PutAgent ==
  ASSUME OneHome, MemberInv, IInv, NEW c \in Clients,
         LocalAgentStep(c) \/ LeavingStep(c) \/ ConnectingStep(c)
  PROVE  OneHome' /\ UNCHANGED devices
<1>1. UNCHANGED devices
  BY AgentKeepsTables
<1>2. sess \in [Sessions -> Task]
  BY DEF IInv, TypeOK
<1>3. CASE \A t \in Sessions : sess'[t].st = "enroll_req" => sess[t].st = "enroll_req" /\ sess'[t].key = sess[t].key /\ sess'[t].ws = sess[t].ws
  <2>1. ASSUME NEW t \in Sessions PROVE StaysPut(t)
    <3>1. AgentTouches(t) /\ sess[t] \in Task
      BY <1>2, AgentTouchesTasks
    <3>2. CASE sess'[t] = sess[t]
      BY <3>2 DEF StaysPut
    <3>3. CASE sess'[t] = Free
      BY <3>3 DEF StaysPut, Free, Enrolling, Issued
    <3>4. CASE sess'[t] = [sess[t] EXCEPT !.owner = None]
      BY <3>1, <3>4 DEF StaysPut, Task
    <3>5. CASE sess'[t].st \in {"enroll_req", "checkin_req"}
      BY <1>3, <3>5 DEF StaysPut, Enrolling, Issued
    <3> QED BY <3>1, <3>2, <3>3, <3>4, <3>5 DEF AgentTouches
  <2> QED BY <1>1, <2>1, EasyStepHomes DEF RowStaysPut
<1>4. CASE UNCHANGED sess
  BY <1>1, <1>3, <1>4
<1>5. CASE sess' = Orphaned(c)
  <2>1. \A t \in Sessions : \/ sess'[t] = sess[t] \/ sess'[t] = Free
                            \/ sess'[t] = [sess[t] EXCEPT !.owner = None]
    BY <1>5 DEF Orphaned
  <2>2. ASSUME NEW t \in Sessions, sess'[t].st = "enroll_req"
        PROVE  sess[t].st = "enroll_req" /\ sess'[t].key = sess[t].key /\ sess'[t].ws = sess[t].ws
    <3>1. sess'[t] # Free
      BY <2>2 DEF Free
    <3> QED BY <1>2, <2>1, <2>2, <3>1 DEF Task
  <2> QED BY <1>1, <1>3, <2>2
<1>6. CASE LocalAgentStep(c)
  BY <1>4, <1>6 DEF LocalAgentStep, UserStep, Start, StartReenroll, Configure, ClearEnrollment,
     LoadKey, GenerateKey, WriteKey, Decide, SaveCertificate, SaveWorkspacePublicKey,
     StartScheduler, CheckinRefused, SaveSynced, SaveSyncedFails, Wake, server
<1>7. CASE LeavingStep(c)
  BY <1>5, <1>7 DEF LeavingStep, KeyUnreadable, EnrollRefused, ClientCrash, Disconnect,
     GoesSilent, EnrollError, Exit
<1>8. ASSUME NEW s \in Sessions, NEW r, sess' = [sess EXCEPT ![s] = r], r.st # "enroll_req"
      PROVE  OneHome'
  BY <1>2, <1>3, <1>8
<1>9. ASSUME NEW s \in Sessions, CheckinConnect(c, s) \/ CheckinReceive(c, s)
                                  \/ CheckinError(c, s) \/ EnrollReceive(c, s)
      PROVE  OneHome'
  <2> DEFINE r == [Free EXCEPT !.st = "checkin_req", !.owner = c, !.key = mem[c].key, !.ws = None]
  <2>1. sess' = [sess EXCEPT ![s] = Free] \/ sess' = [sess EXCEPT ![s] = r]
    BY <1>9 DEF CheckinConnect, CheckinReceive, CheckinError, EnrollReceive, Open
  <2>2. Free.st # "enroll_req" /\ r.st # "enroll_req"
    BY DEF Free
  <2> HIDE DEF r
  <2> QED BY <1>8, <2>1, <2>2
<1>10. ASSUME NEW s \in Sessions, EnrollConnect(c, s)
       PROVE  OneHome'
  <2>1. /\ OneTask(s)
        /\ sess'[s] = [Free EXCEPT !.st = "enroll_req", !.owner = c, !.key = mem[c].key, !.ws = config[c]]
    BY <1>10, OneTaskUpdate DEF EnrollConnect, Open
  <2>2. sess'[s].st = "enroll_req" /\ sess'[s].key = mem[c].key /\ sess'[s].ws = config[c]
    BY <2>1 DEF Free
  <2>3. mem[c].key \in HeldKeys(c) /\ mem[c].key \in Keys
    <3>1. AgentSound(c) /\ mem[c].key \in Keys \cup {None} /\ pc[c] \in HoldsKey
      BY <1>10, AgentTypes DEF IInv, EnrollConnect, HoldsKey
    <3>2. mem[c].key # None
      BY <3>1 DEF AgentSound
    <3> QED BY <3>1, <3>2, AbsentIsNoValue DEF HeldKeys
  <2>4. devices[mem[c].key] # None => devices[mem[c].key].cert.ws = config[c]
    BY <2>3 DEF MemberInv, RowStaysHome
  <2>5. \A t \in Sessions : sess[t].st \in Enrolling /\ sess[t].key = mem[c].key =>
                             sess[t].ws = config[c]
    BY <2>3 DEF MemberInv, TaskStaysHome, Enrolling
  <2>6. ASSUME NEW t \in Sessions, sess'[t].st \in Enrolling
        PROVE  /\ devices'[sess'[t].key] # None => devices'[sess'[t].key].cert.ws = sess'[t].ws
               /\ \A u \in Sessions : sess'[u].st \in Enrolling /\ sess'[u].key = sess'[t].key =>
                                      sess'[u].ws = sess'[t].ws
    <3>1. CASE t = s
      BY <1>1, <2>1, <2>2, <2>4, <2>5, <3>1 DEF OneTask
    <3>2. CASE t # s
      <4>1. sess'[t] = sess[t]
        BY <2>1, <3>2 DEF OneTask
      <4>2. devices'[sess'[t].key] # None => devices'[sess'[t].key].cert.ws = sess'[t].ws
        BY <1>1, <2>6, <4>1, HomesAgree
      <4>3. ASSUME NEW u \in Sessions, sess'[u].st \in Enrolling, sess'[u].key = sess'[t].key
            PROVE  sess'[u].ws = sess'[t].ws
        <5>1. CASE u = s
          BY <2>2, <2>5, <2>6, <4>1, <4>3, <5>1
        <5>2. CASE u # s
          <6>1. sess'[u] = sess[u]
            BY <2>1, <5>2 DEF OneTask
          <6> QED BY <2>6, <4>1, <4>3, <6>1, HomesAgree
        <5> QED BY <5>1, <5>2
      <4> QED BY <4>2, <4>3
    <3> QED BY <3>1, <3>2
  <2> QED BY <2>6 DEF OneHome, Enrolling
<1>11. CASE ConnectingStep(c)
  BY <1>1, <1>9, <1>10, <1>11 DEF ConnectingStep
<1> QED BY <1>1, <1>6, <1>7, <1>11

\* Tasks that end, and a start of the server, leave every other where it is.
LEMMA PutEnds ==
  ASSUME OneHome, IInv,
         \/ ServerCrash \/ ServerStart \/ LoadIdentity \/ StoreIdentity \/ UNCHANGED vars
         \/ \E s \in Sessions : TaskFails(s) \/ DropOrphan(s)
  PROVE  OneHome' /\ UNCHANGED devices
<1>1. UNCHANGED devices
  BY DEF ServerCrash, ServerStart, LoadIdentity, StoreIdentity, TaskFails, DropOrphan, vars, db
<1>2. ASSUME \A t \in Sessions : sess'[t] = sess[t] \/ sess'[t] = Failed(t)
      PROVE  OneHome'
  <2>1. ASSUME NEW t \in Sessions PROVE StaysPut(t)
    <3>1. CASE sess'[t] = sess[t]
      BY <3>1 DEF StaysPut
    <3>2. CASE sess'[t] = Failed(t)
      <4>1. sess'[t].st \in {"free", "failed"}
        BY <3>2, FailedTask DEF IInv
      <4> QED BY <4>1 DEF StaysPut, Enrolling, Issued
    <3> QED BY <1>2, <3>1, <3>2
  <2> QED BY <1>1, <2>1, EasyStepHomes DEF RowStaysPut
<1>3. CASE ServerCrash
  BY <1>1, <1>2, <1>3 DEF ServerCrash
<1>4. CASE UNCHANGED sess
  BY <1>1, <1>2, <1>4
<1>5. ASSUME NEW s \in Sessions, TaskFails(s) \/ DropOrphan(s) PROVE OneHome'
  <2>1. sess' = [sess EXCEPT ![s] = Failed(s)]
    BY <1>5 DEF TaskFails, DropOrphan, Failed
  <2> QED BY <1>1, <2>1, FailedStaysPut
<1> QED BY <1>1, <1>3, <1>4, <1>5 DEF ServerStart, LoadIdentity, StoreIdentity, vars, server

\* No row that stays goes to another workspace.
RowsStayPut ==
  \A k \in Keys : devices[k] # None /\ devices'[k] # None =>
                  devices'[k].cert.ws = devices[k].cert.ws

\* Every step keeps OneHome, and every row in its workspace.
LEMMA StepOneHome ==
  IInv /\ MemberInv /\ OneHome /\ [Next]_vars => OneHome' /\ RowsStayPut
<1> SUFFICES ASSUME IInv, MemberInv, OneHome, [Next]_vars PROVE OneHome' /\ RowsStayPut
  OBVIOUS
<1>1. CASE OneHome' /\ UNCHANGED devices
  BY <1>1 DEF RowsStayPut
<1>2. CASE ServerStep
  <2>1. ASSUME NEW s \in Sessions, EnrollInsert(s) PROVE OneHome' /\ RowsStayPut
    BY <2>1, PutEnrollInsert DEF RowsStayPut, RowStaysPut
  <2>2. ASSUME NEW s \in Sessions, CheckinRecord(s) PROVE OneHome' /\ RowsStayPut
    BY <2>2, PutCheckinRecord DEF RowsStayPut, RowStaysPut
  <2> QED BY <1>1, <1>2, <2>1, <2>2, PutHandlers, PutEnds DEF ServerStep
<1>3. CASE AdminStep
  <2>1. UNCHANGED sess /\ \A k \in Keys : devices'[k] = devices[k] \/ devices'[k] = None
    BY <1>3, AdminAdministers DEF Administers, server
  <2>2. (\A t \in Sessions : StaysPut(t)) /\ \A k \in Keys : RowStaysPut(k)
    BY <2>1 DEF StaysPut, RowStaysPut
  <2> QED BY <2>2, EasyStepHomes DEF RowsStayPut, RowStaysPut
<1>4. ASSUME NEW c \in Clients, AgentStep(c) \/ UserStep(c) \/ AgentFault(c)
      PROVE  OneHome' /\ RowsStayPut
  BY <1>1, <1>4, AgentStepKinds, PutAgent
<1>5. CASE Fault
  BY <1>1, <1>4, <1>5, PutEnds DEF Fault, AgentFault
<1>6. CASE UNCHANGED vars
  BY <1>1, <1>6, PutEnds
<1> QED BY <1>2, <1>3, <1>4, <1>5, <1>6 DEF Next

-----------------------------------------------------------------------------
(* Agents that wait.                                                       *)

\* The server, its tasks and the database leave the owners as they are.
OwnersAreKept == \A t \in Sessions : sess[t].owner # None => sess'[t].owner = sess[t].owner

AllWait == \A c \in Clients : WaitsOnATask(c)

\* A step that keeps owners and agents leaves every agent its connection.
LEMMA KeptOwnersWait ==
  ASSUME AllWait, OwnersAreKept, UNCHANGED pc
  PROVE  AllWait'
<1> SUFFICES ASSUME NEW c \in Clients, pc[c] \in Waiting
             PROVE  \E s \in Sessions : sess'[s].owner = c
  BY DEF AllWait, WaitsOnATask
<1>1. PICK s \in Sessions : sess[s].owner = c
  BY DEF AllWait, WaitsOnATask
<1>2. c # None
  BY ConstantsDistinct
<1> QED BY <1>1, <1>2 DEF OwnersAreKept

\* An update of one task that keeps its owner keeps all of them.
LEMMA OneOwnerKept ==
  ASSUME IInv, NEW s \in Sessions, NEW t, sess' = [sess EXCEPT ![s] = t],
         sess[s].owner # None => t.owner = sess[s].owner
  PROVE  OwnersAreKept
  BY OneTaskUpdate DEF OneTask, OwnersAreKept

\* The handlers of enrollment keep the owner, whether they go on or fail.
LEMMA EnrollKeepsOwners ==
  ASSUME IInv, NEW s \in Sessions, EnrollFind(s) \/ EnrollInsert(s) \/ EnrollAnswer(s)
  PROVE  OwnersAreKept /\ UNCHANGED pc
<1>1. UNCHANGED pc
  BY DEF EnrollFind, EnrollInsert, EnrollAnswer, agent
<1>2. sess[s] \in Task
  BY TaskTypes DEF IInv
<1>3. CASE EnrollFind(s)
  <2>1. CASE sess' = [sess EXCEPT ![s] = [sess[s] EXCEPT !.st = "enroll_found", !.cert = NewCert(s)]]
    BY <1>1, <1>2, <2>1, OneOwnerKept DEF Task
  <2>2. CASE sess' = [sess EXCEPT ![s] = Failed(s)]
    BY <1>1, <2>2, FailedTask, OneOwnerKept DEF IInv
  <2> QED BY <1>3, <2>1, <2>2 DEF EnrollFind
<1>4. CASE EnrollInsert(s)
  <2>1. CASE sess' = [sess EXCEPT ![s] = [sess[s] EXCEPT !.st = "enroll_inserted"]]
    BY <1>1, <1>2, <2>1, OneOwnerKept DEF Task
  <2>2. CASE sess' = [sess EXCEPT ![s] = Failed(s)]
    BY <1>1, <2>2, FailedTask, OneOwnerKept DEF IInv
  <2> QED BY <1>4, <2>1, <2>2 DEF EnrollInsert
<1>5. CASE EnrollAnswer(s)
  <2>1. sess' = [sess EXCEPT ![s] = IF sess[s].owner = None THEN Free
                                    ELSE [sess[s] EXCEPT !.st = "enroll_answered"]]
    BY <1>5 DEF EnrollAnswer
  <2> QED BY <1>1, <1>2, <2>1, OneOwnerKept DEF Task
<1> QED BY <1>1, <1>3, <1>4, <1>5

\* So do the handlers of check-ins.
LEMMA CheckinKeepsOwners ==
  ASSUME IInv, NEW s \in Sessions, CheckinLookup(s) \/ CheckinRecord(s) \/ CheckinAnswer(s)
  PROVE  OwnersAreKept /\ UNCHANGED pc
<1>1. UNCHANGED pc
  BY DEF CheckinLookup, CheckinRecord, CheckinAnswer, agent
<1>2. sess[s] \in Task
  BY TaskTypes DEF IInv
<1>3. CASE CheckinLookup(s)
  <2>1. CASE sess' = [sess EXCEPT ![s] = [sess[s] EXCEPT !.st = "checkin_known",
                                                         !.cert = devices[sess[s].key].cert]]
    BY <1>1, <1>2, <2>1, OneOwnerKept DEF Task
  <2>2. CASE sess' = [sess EXCEPT ![s] = Failed(s)]
    BY <1>1, <2>2, FailedTask, OneOwnerKept DEF IInv
  <2> QED BY <1>3, <2>1, <2>2 DEF CheckinLookup
<1>4. CASE CheckinRecord(s)
  <2>1. sess' = [sess EXCEPT ![s] = [sess[s] EXCEPT !.st = "checkin_recorded"]]
    BY <1>4 DEF CheckinRecord
  <2> QED BY <1>1, <1>2, <2>1, OneOwnerKept DEF Task
<1>5. CASE CheckinAnswer(s)
  <2> DEFINE n == IF Live(sess[s].cert.ws) THEN workspaces[sess[s].cert.ws] ELSE ""
  <2>1. sess' = [sess EXCEPT ![s] = IF sess[s].owner = None THEN Free
                                    ELSE [sess[s] EXCEPT !.st = "checkin_answered", !.name = n]]
    BY <1>5 DEF CheckinAnswer
  <2> HIDE DEF n
  <2> QED BY <1>1, <1>2, <2>1, OneOwnerKept DEF Task
<1> QED BY <1>1, <1>3, <1>4, <1>5

\* A crash of the server, and a task that ends, leave the owner an error.
LEMMA FaultKeepsOwners ==
  ASSUME IInv, ServerCrash \/ \E s \in Sessions : TaskFails(s) \/ DropOrphan(s)
  PROVE  OwnersAreKept /\ UNCHANGED pc
<1>1. CASE ServerCrash
  <2>1. \A t \in Sessions : sess'[t] = sess[t] \/ sess'[t] = Failed(t)
    BY <1>1 DEF ServerCrash
  <2> QED BY <1>1, <2>1, FailedTask DEF OwnersAreKept, ServerCrash, agent, IInv
<1>2. ASSUME NEW s \in Sessions, TaskFails(s) \/ DropOrphan(s)
      PROVE  OwnersAreKept /\ UNCHANGED pc
  <2>1. sess' = [sess EXCEPT ![s] = Failed(s)] /\ UNCHANGED pc
    BY <1>2 DEF TaskFails, DropOrphan, Failed, agent
  <2> QED BY <2>1, FailedTask, OneOwnerKept DEF IInv
<1> QED BY <1>1, <1>2

\* An agent's step concerns its own connections and its own place, and takes it
\* to where it does not wait, or opens a connection.
AgentWaits(c) ==
  /\ \A d \in Clients \ {c} : pc'[d] = pc[d]
  /\ \A t \in Sessions : sess[t].owner \notin {c, None} => sess'[t].owner = sess[t].owner
  /\ pc'[c] \in Waiting => \E s \in Sessions : sess'[s].owner = c

LEMMA AgentWaitsAgain ==
  ASSUME AllWait, NEW c \in Clients, AgentWaits(c)
  PROVE  AllWait'
<1> SUFFICES ASSUME NEW d \in Clients, pc'[d] \in Waiting
             PROVE  \E s \in Sessions : sess'[s].owner = d
  BY DEF AllWait, WaitsOnATask
<1>1. CASE d = c
  BY <1>1 DEF AgentWaits
<1>2. CASE d # c
  <2>1. pc[d] \in Waiting
    BY <1>2 DEF AgentWaits
  <2>2. PICK s \in Sessions : sess[s].owner = d
    BY <2>1 DEF AllWait, WaitsOnATask
  <2>3. d # None
    BY ConstantsDistinct
  <2> QED BY <1>2, <2>2, <2>3 DEF AgentWaits
<1> QED BY <1>1, <1>2

\* What an agent does alone never makes it wait.
LEMMA LocalWaits ==
  ASSUME IInv, NEW c \in Clients, LocalAgentStep(c)
  PROVE  AgentWaits(c)
<1>1. UNCHANGED sess
  BY DEF LocalAgentStep, UserStep, Start, StartReenroll, Configure, ClearEnrollment,
     LoadKey, GenerateKey, WriteKey, Decide, SaveCertificate, SaveWorkspacePublicKey,
     StartScheduler, CheckinRefused, SaveSynced, SaveSyncedFails, Wake, server
<1>2. pc \in [Clients -> Location]
  BY DEF IInv, TypeOK
<1>3. \/ UNCHANGED pc /\ pc[c] = "off"
      \/ \E l \in Location \ Waiting : Go(c, l)
  BY DEF LocalAgentStep, UserStep, Start, StartReenroll, Configure, ClearEnrollment,
     LoadKey, GenerateKey, WriteKey, Decide, SaveCertificate, SaveWorkspacePublicKey,
     StartScheduler, CheckinRefused, SaveSynced, SaveSyncedFails, Wake, agent, Location, Waiting
<1>4. (\A d \in Clients \ {c} : pc'[d] = pc[d]) /\ pc'[c] \notin Waiting
  BY <1>2, <1>3 DEF Go, Waiting
<1> QED BY <1>1, <1>4 DEF AgentWaits

\* An agent that leaves its connection waits no more.
LEMMA LeavingWaits ==
  ASSUME IInv, NEW c \in Clients, LeavingStep(c)
  PROVE  AgentWaits(c)
<1>1. sess' = Orphaned(c) /\ \E l \in LostAt \cup {"off"} : Go(c, l)
  BY DEF LeavingStep, KeyUnreadable, EnrollRefused, ClientCrash, Disconnect,
     GoesSilent, EnrollError, Exit, LostAt
<1>2. pc \in [Clients -> Location]
  BY DEF IInv, TypeOK
<1>3. (\A d \in Clients \ {c} : pc'[d] = pc[d]) /\ pc'[c] \notin Waiting
  BY <1>1, <1>2 DEF Go, Waiting, LostAt
<1>4. \A t \in Sessions : sess[t].owner \notin {c, None} => sess'[t].owner = sess[t].owner
  BY <1>1 DEF Orphaned
<1> QED BY <1>3, <1>4 DEF AgentWaits

\* An agent that connects has the connection it waits on; one that has its answer
\* waits no more.
LEMMA ConnectingWaits ==
  ASSUME IInv, NEW c \in Clients, ConnectingStep(c)
  PROVE  AgentWaits(c)
<1>1. PICK s \in Sessions : \/ EnrollConnect(c, s) \/ EnrollReceive(c, s)
                            \/ CheckinConnect(c, s) \/ CheckinReceive(c, s) \/ CheckinError(c, s)
  BY DEF ConnectingStep
<1>2. pc \in [Clients -> Location]
  BY DEF IInv, TypeOK
<1>3. CASE EnrollConnect(c, s) \/ CheckinConnect(c, s)
  <2>1. sess[s].st = "free" /\ (Go(c, "enrolling") \/ Go(c, "checking"))
    BY <1>3 DEF EnrollConnect, CheckinConnect
  <2>2. sess[s].owner = None
    BY <2>1 DEF IInv, OwnerWaits
  <2>3. PICK stage, w : Open(s, c, stage, w)
    BY <1>3 DEF EnrollConnect, CheckinConnect
  <2>4. sess'[s].owner = c /\ OneTask(s)
    <3> DEFINE r == [Free EXCEPT !.st = stage, !.owner = c, !.key = mem[c].key, !.ws = w]
    <3>1. sess' = [sess EXCEPT ![s] = r]
      BY <2>3 DEF Open
    <3>2. r.owner = c
      BY DEF Free
    <3> HIDE DEF r
    <3> QED BY <3>1, <3>2, OneTaskUpdate
  <2>5. \A d \in Clients \ {c} : pc'[d] = pc[d]
    BY <1>2, <2>1 DEF Go
  <2>6. \A t \in Sessions : sess[t].owner \notin {c, None} => sess'[t].owner = sess[t].owner
    BY <2>2, <2>4 DEF OneTask
  <2> QED BY <2>4, <2>5, <2>6 DEF AgentWaits
<1>4. CASE EnrollReceive(c, s) \/ CheckinReceive(c, s) \/ CheckinError(c, s)
  <2>1. /\ sess[s].owner = c /\ sess' = [sess EXCEPT ![s] = Free]
        /\ Go(c, "save_cert") \/ Go(c, "save_conf") \/ Go(c, "sleep_err")
    BY <1>4 DEF EnrollReceive, CheckinReceive, CheckinError
  <2>2. OneTask(s)
    BY <2>1, OneTaskUpdate
  <2>3. (\A d \in Clients \ {c} : pc'[d] = pc[d]) /\ pc'[c] \notin Waiting
    BY <1>2, <2>1 DEF Go, Waiting
  <2>4. \A t \in Sessions : sess[t].owner \notin {c, None} => sess'[t].owner = sess[t].owner
    BY <2>1, <2>2 DEF OneTask
  <2> QED BY <2>3, <2>4 DEF AgentWaits
<1> QED BY <1>1, <1>3, <1>4

\* Nobody waits when nothing has run yet.
LEMMA WaitInit == Init => AllWait
  BY DEF Init, AllWait, WaitsOnATask, Waiting

\* Every step leaves every agent that waits its connection.
LEMMA StepAllWait == IInv /\ AllWait /\ [Next]_vars => AllWait'
<1> SUFFICES ASSUME IInv, AllWait, [Next]_vars PROVE AllWait'
  OBVIOUS
<1>1. CASE UNCHANGED <<sess, pc>>
  BY <1>1, KeptOwnersWait DEF OwnersAreKept
<1>2. CASE ServerStep
  <2>1. CASE ServerStart \/ LoadIdentity \/ StoreIdentity
    BY <1>1, <2>1 DEF ServerStart, LoadIdentity, StoreIdentity, agent
  <2> QED BY <1>2, <2>1, EnrollKeepsOwners, CheckinKeepsOwners, KeptOwnersWait DEF ServerStep
<1>3. CASE AdminStep
  BY <1>1, <1>3 DEF AdminStep, CreateWorkspace, RenameWorkspace, DeleteWorkspace, server, agent
<1>4. ASSUME NEW c \in Clients, AgentStep(c) \/ UserStep(c) \/ AgentFault(c)
      PROVE  AllWait'
  BY <1>4, AgentStepKinds, LocalWaits, LeavingWaits, ConnectingWaits, AgentWaitsAgain
<1>5. CASE Fault
  BY <1>4, <1>5, FaultKeepsOwners, KeptOwnersWait DEF Fault, AgentFault
<1>6. CASE UNCHANGED vars
  BY <1>1, <1>6 DEF vars, server, agent
<1> QED BY <1>2, <1>3, <1>4, <1>5, <1>6 DEF Next

-----------------------------------------------------------------------------
(* The theorems.                                                           *)

\* The whole invariant is inductive: it holds initially and every step of the
\* server, the administrators, the agents and the faults preserves it.
THEOREM FleetStaysSound == Spec => []FleetInv
<1>1. Init => FleetInv
  <2>1. Init => OneHome
    BY DEF Init, Free, OneHome, Issued
  <2> QED BY <2>1, InitIInv, RecordInit, MemberInit, WaitInit DEF FleetInv, AllWait
<1>2. FleetInv /\ [Next]_vars => FleetInv'
  <2> SUFFICES ASSUME FleetInv, [Next]_vars PROVE FleetInv'
    OBVIOUS
  <2>1. IInv' /\ RecordInv'
    BY StepIInv, StepRecordInv DEF FleetInv
  <2>2. ~Reconfigure => MemberInv' /\ OneHome'
    BY StepMemberInv, StepOneHome DEF FleetInv
  <2>3. AllWait'
    BY StepAllWait DEF FleetInv, AllWait
  <2> QED BY <2>1, <2>2, <2>3 DEF FleetInv, AllWait
<1> QED BY <1>1, <1>2, PTL DEF Spec

\* The agent waits for the server's answer without a timeout (checkin.rs:31,
\* main.rs:184), so it can wait for ever: but only when its connection goes silent.
\* Otherwise what it waits for is under way or has come, whatever crashed, failed,
\* was deleted or was inserted late.
THEOREM AgentsHangOnlyInSilence == Spec => []OnlySilenceHangs
<1>1. FleetInv => OnlySilenceHangs
  <2> SUFFICES ASSUME FleetInv, NEW c \in Clients, pc[c] \in Waiting
               PROVE  \E s \in Sessions : Awaits(c, s)
    BY DEF OnlySilenceHangs, Hangs
  <2>1. PICK s \in Sessions : sess[s].owner = c
    BY DEF FleetInv, WaitsOnATask
  <2>2. c # None /\ TaskSound(s) /\ OwnerWaits(s) /\ sess[s].st \in Stage
    BY ConstantsDistinct, TaskTypes DEF FleetInv, IInv
  <2>3. sess[s].st # "free"
    BY <2>1, <2>2 DEF OwnerWaits
  <2>4. CASE sess[s].st = "failed"
    BY <2>1, <2>4 DEF Awaits
  <2>5. CASE sess[s].st \in Working
    BY <2>1, <2>2, <2>5 DEF Awaits, TaskSound
  <2>6. CASE sess[s].st = "enroll_answered"
    BY <2>1, <2>2, <2>6 DEF Awaits, OwnerWaits, Issued
  <2>7. CASE sess[s].st = "checkin_answered"
    BY <2>1, <2>2, <2>7 DEF Awaits, OwnerWaits, Looked
  <2> QED BY <2>2, <2>3, <2>4, <2>5, <2>6, <2>7 DEF Stage, Working
<1> QED BY <1>1, FleetStaysSound, PTL

\* An agent whose check-in was accepted was recorded by the server
\* (handle_checkin updates the row before it answers), unless the row was deleted
\* or replaced by another enrollment of the same key in between.
THEOREM AcceptedCheckinsAreRecorded == Spec => []AcceptedIsRecorded
<1>1. FleetInv => AcceptedIsRecorded
  BY DEF FleetInv, RecordInv, Recorded, AcceptedIsRecorded
<1> QED BY <1>1, FleetStaysSound, PTL

\* A device with a certificate of a live workspace is in the registry: the
\* cascade takes the devices of the deleted workspace and of no other, and no
\* late insert of an enrollment moves a row to another workspace.
THEOREM MembersStayKnown == Spec => []MembersOfLiveWorkspacesAreKnown
<1>1. FleetInv => MembersOfLiveWorkspacesAreKnown
  BY DEF FleetInv, MemberInv, AgentStaysHome, Backed, MembersOfLiveWorkspacesAreKnown
<1> QED BY <1>1, FleetStaysSound, PTL

\* A device stays in its workspace while no user moves its machine: also when the
\* insert of an enrollment the agent has long given up comes after others.
THEOREM DevicesStayInTheirWorkspace == Spec => DevicesStayPut
<1> DEFINE Put == ~Reconfigure => RowsStayPut
<1>1. FleetInv /\ [Next]_vars => [Put]_vars
  BY StepOneHome DEF FleetInv
<1>2. Spec => [][Put]_vars
  BY <1>1, FleetStaysSound, PTL DEF Spec
<1> QED BY <1>2, PTL DEF DevicesStayPut, RowsStayPut
=============================================================================
