------------------------ MODULE ProverClient_proofs ------------------------
(***************************************************************************)
(* What prove and resume guarantee as long as at most one process runs at  *)
(* a time, whatever stops it, and for any number of requests and faults.   *)
(***************************************************************************)
EXTENDS ProverClient, TLAPS

\* One process at a time.
SingleProcess == \A p, q \in Process : p = q

\* A process that may still submit found no files, and nobody has made any.
Unsubmitted ==
    \A p \in Process :
        /\ proc[p].submit /\ proc[p].at \in {"quote", "vkey", "fill vkey", "submit"}
             => id_file = Absent /\ proof_file = Absent
        /\ proc[p].at = "submit" => proc[p].submit

\* While an ID is being persisted there is no other, and no proof.
Persisting ==
    \A p \in Process :
        /\ proc[p].at = "create id" => id_file = Absent /\ proof_file = Absent
        /\ proc[p].at = "fill id" => id_file = Partial /\ proof_file = Absent

\* A proof that is being saved was verified.
Saving ==
    \A p \in Process :
        proc[p].at \in {"create proof", "fill proof"} => requests[proc[p].request] = "good"

IInv ==
    /\ TypeOK /\ WaitingPersisted /\ PaidAccounted /\ SavedProofVerified
    /\ Unsubmitted /\ Persisting /\ Saving

USE DEF Absent, Partial, Vkey, Other

\* The list of requests after one was accepted.
LEMMA Appended ==
    ASSUME NEW s \in Seq(Outcome)
    PROVE  /\ Append(s, "pending") \in Seq(Outcome)
           /\ Len(s) \in Nat
           /\ Len(Append(s, "pending")) = Len(s) + 1
           /\ \A i \in 1 .. Len(s) : Append(s, "pending")[i] = s[i]
  <1>1. "pending" \in Outcome
    BY DEF Outcome
  <1>2. Append(s, "pending") \in Seq(Outcome)
    BY <1>1
  <1>3. Len(s) \in Nat /\ Len(Append(s, "pending")) = Len(s) + 1
    BY <1>1
  <1>4. \A i \in 1 .. Len(s) : Append(s, "pending")[i] = s[i]
    BY <1>1
  <1> QED
    BY <1>2, <1>3, <1>4

\* The list of requests after one was settled.
LEMMA Settled ==
    ASSUME NEW s \in Seq(Outcome), NEW r \in 1 .. Len(s), NEW outcome \in Outcome
    PROVE  /\ [s EXCEPT ![r] = outcome] \in Seq(Outcome)
           /\ Len([s EXCEPT ![r] = outcome]) = Len(s)
           /\ \A i \in 1 .. Len(s) : i # r => [s EXCEPT ![r] = outcome][i] = s[i]
  OBVIOUS

\* The invariant holds initially: no files, no requests, no processes.
LEMMA InitIInv == Init => IInv
  <1> SUFFICES ASSUME Init PROVE IInv
    OBVIOUS
  <1>1. /\ requests \in Seq(Outcome) /\ Request = {}
        /\ id_file = Absent /\ proof_file = Absent /\ vkey_file \in {Absent, Other}
        /\ lost = {} /\ balance \in 0 .. MaxRequests /\ faults \in 0 .. MaxFaults
    BY ProverClientAssumption DEF Init, Request
  <1>2. /\ proc \in [Process -> [at : Places, submit : BOOLEAN, request : {0} \cup Request]]
        /\ \A p \in Process : proc[p].at = "idle" /\ ~proc[p].submit
    BY DEF Init, Idle, Places
  <1> QED
    BY <1>1, <1>2 DEF IInv, TypeOK, WaitingPersisted, PaidAccounted, SavedProofVerified,
           Unsubmitted, Persisting, Saving, Submitted

\* The marks of an absent and of an empty file are no request.
LEMMA NotRequests == ASSUME NEW s \in Seq(Outcome) PROVE 0 \notin 1 .. Len(s) /\ -1 \notin 1 .. Len(s)
  OBVIOUS

\* A process that moves on keeps its command and its request.
LEMMA GotoProc ==
    ASSUME TypeOK, NEW p \in Process, NEW place \in Places, Goto(p, place)
    PROVE  /\ proc'[p].at = place
           /\ proc'[p].submit = proc[p].submit
           /\ proc'[p].request = proc[p].request
           /\ proc' \in [Process -> [at : Places, submit : BOOLEAN, request : {0} \cup Request]]
  <1>1. proc[p] \in [at : Places, submit : BOOLEAN, request : {0} \cup Request]
    BY DEF TypeOK
  <1>2. proc' = [proc EXCEPT ![p] = [proc[p] EXCEPT !.at = place]]
    BY DEF Goto
  <1>3. [proc[p] EXCEPT !.at = place] \in [at : Places, submit : BOOLEAN, request : {0} \cup Request]
    BY <1>1
  <1>4. proc' \in [Process -> [at : Places, submit : BOOLEAN, request : {0} \cup Request]]
    BY <1>2, <1>3 DEF TypeOK
  <1>5. proc'[p] = [proc[p] EXCEPT !.at = place]
    BY <1>2 DEF TypeOK
  <1> QED
    BY <1>1, <1>4, <1>5

\* A process that takes a request on.
LEMMA TakeProc ==
    ASSUME TypeOK, NEW p \in Process, NEW place \in Places, NEW r,
           proc' = [proc EXCEPT ![p].at = place, ![p].request = r]
    PROVE  /\ proc'[p].at = place
           /\ proc'[p].submit = proc[p].submit
           /\ proc'[p].request = r
           /\ \A T : {0} \cup Request \subseteq T /\ r \in T
                        => proc' \in [Process -> [at : Places, submit : BOOLEAN, request : T]]
  <1>1. proc[p] \in [at : Places, submit : BOOLEAN, request : {0} \cup Request]
    BY DEF TypeOK
  <1>2. DEFINE next == [proc[p] EXCEPT !.at = place, !.request = r]
  <1>3. proc' = [proc EXCEPT ![p] = next]
    OBVIOUS
  <1>4. proc'[p] = next
    BY <1>3 DEF TypeOK
  <1>5. next = [at |-> place, submit |-> proc[p].submit, request |-> r]
    <2>1. proc[p] = [at |-> proc[p].at, submit |-> proc[p].submit, request |-> proc[p].request]
      BY <1>1
    <2>2. [proc[p] EXCEPT !.at = place] =
              [at |-> place, submit |-> proc[p].submit, request |-> proc[p].request]
      BY <2>1
    <2>3. next = [[proc[p] EXCEPT !.at = place] EXCEPT !.request = r]
      OBVIOUS
    <2>4. [[at |-> place, submit |-> proc[p].submit, request |-> proc[p].request] EXCEPT !.request = r]
              = [at |-> place, submit |-> proc[p].submit, request |-> r]
      OBVIOUS
    <2> HIDE DEF next
    <2> QED
      BY <2>2, <2>3, <2>4
  <1>6. ASSUME NEW T, {0} \cup Request \subseteq T, r \in T
        PROVE  proc' \in [Process -> [at : Places, submit : BOOLEAN, request : T]]
    <2>1. next \in [at : Places, submit : BOOLEAN, request : T]
      BY <1>1, <1>5, <1>6
    <2>2. \A q \in Process : proc[q] \in [at : Places, submit : BOOLEAN, request : T]
      BY <1>6 DEF TypeOK
    <2> QED
      BY <1>3, <2>1, <2>2 DEF TypeOK
  <1> QED
    BY <1>4, <1>5, <1>6

\* A process that ends leaves no state.
LEMMA ExitProc ==
    ASSUME TypeOK, NEW p \in Process, Exit(p)
    PROVE  /\ proc'[p].at = "idle"
           /\ proc'[p].submit = FALSE
           /\ proc'[p].request = 0
           /\ proc' \in [Process -> [at : Places, submit : BOOLEAN, request : {0} \cup Request]]
  <1>1. Idle \in [at : Places, submit : BOOLEAN, request : {0} \cup Request]
    BY DEF Idle, Places
  <1>2. proc' = [proc EXCEPT ![p] = Idle]
    BY DEF Exit
  <1> QED
    BY <1>1, <1>2 DEF TypeOK, Idle

\* prove starts when there are no files.
LEMMA ProveIInv ==
    ASSUME SingleProcess, IInv, NEW p \in Process, Prove(p)
    PROVE  IInv'
  <1>1. \A q \in Process : q = p
    BY DEF SingleProcess
  <1>2. /\ proc[p].at = "idle"
        /\ id_file = Absent /\ proof_file = Absent
        /\ UNCHANGED <<vkey_file, id_file, proof_file, requests, balance, lost, faults>>
    BY DEF Prove, At, files, network, IInv, RefusesToSubmit
  <1>3. /\ proc'[p].at = "quote"
        /\ proc'[p].submit = TRUE
        /\ proc'[p].request = 0
        /\ proc' \in [Process -> [at : Places, submit : BOOLEAN, request : {0} \cup Request]]
    BY <1>2 DEF Prove, At, IInv, Places, TypeOK
  <1>4. Request' = Request /\ Absent \notin Request /\ Partial \notin Request
    BY <1>2, NotRequests DEF IInv, TypeOK, Request
  <1>5. TypeOK'
    BY <1>1, <1>2, <1>3, <1>4 DEF IInv, TypeOK, Submitted, WaitingPersisted
  <1>6. WaitingPersisted'
    BY <1>1, <1>2, <1>3 DEF IInv, WaitingPersisted
  <1>7. PaidAccounted'
    BY <1>1, <1>2, <1>3, <1>4 DEF IInv, PaidAccounted
  <1>8. SavedProofVerified'
    BY <1>1, <1>2, <1>3, <1>4 DEF IInv, SavedProofVerified, WaitingPersisted, Saving
  <1>9. Unsubmitted' /\ Persisting'
    BY <1>1, <1>2, <1>3 DEF IInv, TypeOK, Unsubmitted, Persisting
  <1>10. Saving'
    BY <1>1, <1>2, <1>3 DEF IInv, Saving
  <1> QED
    BY <1>5, <1>6, <1>7, <1>8, <1>9, <1>10 DEF IInv

\* resume starts whatever the files are.
LEMMA ResumeIInv ==
    ASSUME SingleProcess, IInv, NEW p \in Process, Resume(p)
    PROVE  IInv'
  <1>1. \A q \in Process : q = p
    BY DEF SingleProcess
  <1>2. /\ proc[p].at = "idle"
        /\ UNCHANGED <<vkey_file, id_file, proof_file, requests, balance, lost, faults>>
    BY DEF Resume, At, files, network, IInv
  <1>3. /\ proc'[p].at = "quote"
        /\ proc'[p].submit = FALSE
        /\ proc'[p].request = 0
        /\ proc' \in [Process -> [at : Places, submit : BOOLEAN, request : {0} \cup Request]]
    BY <1>2 DEF Resume, At, IInv, Places, TypeOK
  <1>4. Request' = Request /\ Absent \notin Request /\ Partial \notin Request
    BY <1>2, NotRequests DEF IInv, TypeOK, Request
  <1>5. TypeOK'
    BY <1>1, <1>2, <1>3, <1>4 DEF IInv, TypeOK, Submitted, WaitingPersisted
  <1>6. WaitingPersisted'
    BY <1>1, <1>2, <1>3 DEF IInv, WaitingPersisted
  <1>7. PaidAccounted'
    BY <1>1, <1>2, <1>3, <1>4 DEF IInv, PaidAccounted
  <1>8. SavedProofVerified'
    BY <1>1, <1>2, <1>3, <1>4 DEF IInv, SavedProofVerified, WaitingPersisted, Saving
  <1>9. Unsubmitted' /\ Persisting'
    BY <1>1, <1>2, <1>3 DEF IInv, TypeOK, Unsubmitted, Persisting
  <1>10. Saving'
    BY <1>1, <1>2, <1>3 DEF IInv, Saving
  <1> QED
    BY <1>5, <1>6, <1>7, <1>8, <1>9, <1>10 DEF IInv

\* The quote changes nothing but the place of the process.
LEMMA QueryQuoteIInv ==
    ASSUME SingleProcess, IInv, NEW p \in Process, QueryQuote(p)
    PROVE  IInv'
  <1>1. \A q \in Process : q = p
    BY DEF SingleProcess
  <1>2. /\ proc[p].at = "quote"
        /\ UNCHANGED <<vkey_file, id_file, proof_file, requests, balance, lost, faults>>
    BY DEF QueryQuote, At, files, network, IInv, TooPoor
  <1>3. /\ \/ /\ proc'[p].at = "vkey"
              /\ proc'[p].submit = proc[p].submit
              /\ proc'[p].request = proc[p].request
           \/ /\ proc'[p].at = "idle"
              /\ proc'[p].submit = FALSE
              /\ proc'[p].request = 0
        /\ proc' \in [Process -> [at : Places, submit : BOOLEAN, request : {0} \cup Request]]
    BY GotoProc, ExitProc DEF QueryQuote, At, IInv, Places, TooPoor
  <1>4. Request' = Request /\ Absent \notin Request /\ Partial \notin Request
    BY <1>2, NotRequests DEF IInv, TypeOK, Request
  <1>5. TypeOK'
    BY <1>1, <1>2, <1>3, <1>4 DEF IInv, TypeOK, Submitted, WaitingPersisted
  <1>6. WaitingPersisted'
    BY <1>1, <1>2, <1>3 DEF IInv, WaitingPersisted
  <1>7. PaidAccounted'
    BY <1>1, <1>2, <1>3, <1>4 DEF IInv, PaidAccounted
  <1>8. SavedProofVerified'
    BY <1>1, <1>2, <1>3, <1>4 DEF IInv, SavedProofVerified, WaitingPersisted, Saving
  <1>9. Unsubmitted' /\ Persisting'
    BY <1>1, <1>2, <1>3 DEF IInv, TypeOK, Unsubmitted, Persisting
  <1>10. Saving'
    BY <1>1, <1>2, <1>3 DEF IInv, Saving
  <1> QED
    BY <1>5, <1>6, <1>7, <1>8, <1>9, <1>10 DEF IInv

\* Nor does the comparison of the vkey.
LEMMA VerifyVkeyIInv ==
    ASSUME SingleProcess, IInv, NEW p \in Process, VerifyVkey(p)
    PROVE  IInv'
  <1>1. \A q \in Process : q = p
    BY DEF SingleProcess
  <1>2. /\ proc[p].at = "vkey"
        /\ UNCHANGED <<vkey_file, id_file, proof_file, requests, balance, lost, faults>>
    BY DEF VerifyVkey, At, files, network, IInv, AfterVkey
  <1>3. /\ \/ /\ proc'[p].at = "submit"
              /\ proc'[p].submit = proc[p].submit
              /\ proc'[p].request = proc[p].request
              /\ proc[p].submit
           \/ /\ proc'[p].at = "read"
              /\ proc'[p].submit = proc[p].submit
              /\ proc'[p].request = proc[p].request
              /\ ~proc[p].submit
           \/ /\ proc'[p].at = "idle"
              /\ proc'[p].submit = FALSE
              /\ proc'[p].request = 0
        /\ proc' \in [Process -> [at : Places, submit : BOOLEAN, request : {0} \cup Request]]
    BY GotoProc, ExitProc DEF VerifyVkey, At, IInv, Places, AfterVkey
  <1>4. Request' = Request /\ Absent \notin Request /\ Partial \notin Request
    BY <1>2, NotRequests DEF IInv, TypeOK, Request
  <1>5. TypeOK'
    BY <1>1, <1>2, <1>3, <1>4 DEF IInv, TypeOK, Submitted, WaitingPersisted
  <1>6. WaitingPersisted'
    BY <1>1, <1>2, <1>3 DEF IInv, WaitingPersisted
  <1>7. PaidAccounted'
    BY <1>1, <1>2, <1>3, <1>4 DEF IInv, PaidAccounted
  <1>8. SavedProofVerified'
    BY <1>1, <1>2, <1>3, <1>4 DEF IInv, SavedProofVerified, WaitingPersisted, Saving
  <1>9. Unsubmitted' /\ Persisting'
    BY <1>1, <1>2, <1>3 DEF IInv, TypeOK, Unsubmitted, Persisting
  <1>10. Saving'
    BY <1>1, <1>2, <1>3 DEF IInv, Saving
  <1> QED
    BY <1>5, <1>6, <1>7, <1>8, <1>9, <1>10 DEF IInv

\* The file of the vkey is neither of the other two.
LEMMA CreateVkeyIInv ==
    ASSUME SingleProcess, IInv, NEW p \in Process, CreateVkey(p)
    PROVE  IInv'
  <1>1. \A q \in Process : q = p
    BY DEF SingleProcess
  <1>2. /\ proc[p].at = "vkey"
        /\ vkey_file' = Partial
        /\ UNCHANGED <<id_file, proof_file, requests, balance, lost, faults>>
    BY DEF CreateVkey, At, files, network, IInv
  <1>3. /\ proc'[p].at = "fill vkey"
        /\ proc'[p].submit = proc[p].submit
        /\ proc'[p].request = proc[p].request
        /\ proc' \in [Process -> [at : Places, submit : BOOLEAN, request : {0} \cup Request]]
    BY GotoProc, ExitProc DEF CreateVkey, At, IInv, Places
  <1>4. Request' = Request /\ Absent \notin Request /\ Partial \notin Request
    BY <1>2, NotRequests DEF IInv, TypeOK, Request
  <1>5. TypeOK'
    BY <1>1, <1>2, <1>3, <1>4 DEF IInv, TypeOK, Submitted, WaitingPersisted
  <1>6. WaitingPersisted'
    BY <1>1, <1>2, <1>3 DEF IInv, WaitingPersisted
  <1>7. PaidAccounted'
    BY <1>1, <1>2, <1>3, <1>4 DEF IInv, PaidAccounted
  <1>8. SavedProofVerified'
    BY <1>1, <1>2, <1>3, <1>4 DEF IInv, SavedProofVerified, WaitingPersisted, Saving
  <1>9. Unsubmitted' /\ Persisting'
    BY <1>1, <1>2, <1>3 DEF IInv, TypeOK, Unsubmitted, Persisting
  <1>10. Saving'
    BY <1>1, <1>2, <1>3 DEF IInv, Saving
  <1> QED
    BY <1>5, <1>6, <1>7, <1>8, <1>9, <1>10 DEF IInv

\* The same when it is filled.
LEMMA FillVkeyIInv ==
    ASSUME SingleProcess, IInv, NEW p \in Process, FillVkey(p)
    PROVE  IInv'
  <1>1. \A q \in Process : q = p
    BY DEF SingleProcess
  <1>2. /\ proc[p].at = "fill vkey"
        /\ vkey_file' = Vkey
        /\ UNCHANGED <<id_file, proof_file, requests, balance, lost, faults>>
    BY DEF FillVkey, At, files, network, IInv, AfterVkey
  <1>3. /\ \/ /\ proc'[p].at = "submit"
              /\ proc'[p].submit = proc[p].submit
              /\ proc'[p].request = proc[p].request
              /\ proc[p].submit
           \/ /\ proc'[p].at = "read"
              /\ proc'[p].submit = proc[p].submit
              /\ proc'[p].request = proc[p].request
              /\ ~proc[p].submit
        /\ proc' \in [Process -> [at : Places, submit : BOOLEAN, request : {0} \cup Request]]
    BY GotoProc, ExitProc DEF FillVkey, At, IInv, Places, AfterVkey
  <1>4. Request' = Request /\ Absent \notin Request /\ Partial \notin Request
    BY <1>2, NotRequests DEF IInv, TypeOK, Request
  <1>5. TypeOK'
    BY <1>1, <1>2, <1>3, <1>4 DEF IInv, TypeOK, Submitted, WaitingPersisted
  <1>6. WaitingPersisted'
    BY <1>1, <1>2, <1>3 DEF IInv, WaitingPersisted
  <1>7. PaidAccounted'
    BY <1>1, <1>2, <1>3, <1>4 DEF IInv, PaidAccounted
  <1>8. SavedProofVerified'
    BY <1>1, <1>2, <1>3, <1>4 DEF IInv, SavedProofVerified, WaitingPersisted, Saving
  <1>9. Unsubmitted' /\ Persisting'
    BY <1>1, <1>2, <1>3 DEF IInv, TypeOK, Unsubmitted, Persisting
  <1>10. Saving'
    BY <1>1, <1>2, <1>3 DEF IInv, Saving
  <1> QED
    BY <1>5, <1>6, <1>7, <1>8, <1>9, <1>10 DEF IInv

\* A refused submission ends the process.
LEMMA SubmitRefusedIInv ==
    ASSUME SingleProcess, IInv, NEW p \in Process, SubmitRefused(p)
    PROVE  IInv'
  <1>1. \A q \in Process : q = p
    BY DEF SingleProcess
  <1>2. /\ proc[p].at = "submit"
        /\ UNCHANGED <<vkey_file, id_file, proof_file, requests, balance, lost, faults>>
    BY DEF SubmitRefused, At, files, network, IInv
  <1>3. /\ proc'[p].at = "idle"
        /\ proc'[p].submit = FALSE
        /\ proc'[p].request = 0
        /\ proc' \in [Process -> [at : Places, submit : BOOLEAN, request : {0} \cup Request]]
    BY GotoProc, ExitProc DEF SubmitRefused, At, IInv, Places
  <1>4. Request' = Request /\ Absent \notin Request /\ Partial \notin Request
    BY <1>2, NotRequests DEF IInv, TypeOK, Request
  <1>5. TypeOK'
    BY <1>1, <1>2, <1>3, <1>4 DEF IInv, TypeOK, Submitted, WaitingPersisted
  <1>6. WaitingPersisted'
    BY <1>1, <1>2, <1>3 DEF IInv, WaitingPersisted
  <1>7. PaidAccounted'
    BY <1>1, <1>2, <1>3, <1>4 DEF IInv, PaidAccounted
  <1>8. SavedProofVerified'
    BY <1>1, <1>2, <1>3, <1>4 DEF IInv, SavedProofVerified, WaitingPersisted, Saving
  <1>9. Unsubmitted' /\ Persisting'
    BY <1>1, <1>2, <1>3 DEF IInv, TypeOK, Unsubmitted, Persisting
  <1>10. Saving'
    BY <1>1, <1>2, <1>3 DEF IInv, Saving
  <1> QED
    BY <1>5, <1>6, <1>7, <1>8, <1>9, <1>10 DEF IInv

\* The ID file is created when there is none.
LEMMA CreateIdIInv ==
    ASSUME SingleProcess, IInv, NEW p \in Process, CreateId(p)
    PROVE  IInv'
  <1>1. \A q \in Process : q = p
    BY DEF SingleProcess
  <1>2. /\ proc[p].at = "create id"
        /\ id_file = Absent /\ proof_file = Absent
        /\ id_file' = Partial
        /\ UNCHANGED <<vkey_file, proof_file, requests, balance, lost, faults>>
    BY DEF CreateId, At, files, network, IInv, Persisting
  <1>3. /\ proc'[p].at = "fill id"
        /\ proc'[p].submit = proc[p].submit
        /\ proc'[p].request = proc[p].request
        /\ proc' \in [Process -> [at : Places, submit : BOOLEAN, request : {0} \cup Request]]
    BY GotoProc, ExitProc DEF CreateId, At, IInv, Places
  <1>4. Request' = Request /\ Absent \notin Request /\ Partial \notin Request
    BY <1>2, NotRequests DEF IInv, TypeOK, Request
  <1>5. TypeOK'
    BY <1>1, <1>2, <1>3, <1>4 DEF IInv, TypeOK, Submitted, WaitingPersisted
  <1>6. WaitingPersisted'
    BY <1>1, <1>2, <1>3 DEF IInv, WaitingPersisted
  <1>7. PaidAccounted'
    BY <1>1, <1>2, <1>3, <1>4 DEF IInv, PaidAccounted
  <1>8. SavedProofVerified'
    BY <1>1, <1>2, <1>3, <1>4 DEF IInv, SavedProofVerified, WaitingPersisted, Saving
  <1>9. Unsubmitted' /\ Persisting'
    BY <1>1, <1>2, <1>3 DEF IInv, TypeOK, Unsubmitted, Persisting
  <1>10. Saving'
    BY <1>1, <1>2, <1>3 DEF IInv, Saving
  <1> QED
    BY <1>5, <1>6, <1>7, <1>8, <1>9, <1>10 DEF IInv

\* The ID file receives the request of the process.
LEMMA FillIdIInv ==
    ASSUME SingleProcess, IInv, NEW p \in Process, FillId(p)
    PROVE  IInv'
  <1>1. \A q \in Process : q = p
    BY DEF SingleProcess
  <1>2. /\ proc[p].at = "fill id"
        /\ id_file = Partial /\ proof_file = Absent
        /\ proc[p].request \in Request
        /\ id_file' = proc[p].request
        /\ UNCHANGED <<vkey_file, proof_file, requests, balance, lost, faults>>
    BY DEF FillId, At, files, network, IInv, Persisting, TypeOK, Submitted
  <1>3. /\ proc'[p].at = "wait"
        /\ proc'[p].submit = proc[p].submit
        /\ proc'[p].request = proc[p].request
        /\ proc' \in [Process -> [at : Places, submit : BOOLEAN, request : {0} \cup Request]]
    BY GotoProc, ExitProc DEF FillId, At, IInv, Places
  <1>4. Request' = Request /\ Absent \notin Request /\ Partial \notin Request
    BY <1>2, NotRequests DEF IInv, TypeOK, Request
  <1>5. TypeOK'
    BY <1>1, <1>2, <1>3, <1>4 DEF IInv, TypeOK, Submitted, WaitingPersisted
  <1>6. WaitingPersisted'
    BY <1>1, <1>2, <1>3 DEF IInv, WaitingPersisted
  <1>7. PaidAccounted'
    BY <1>1, <1>2, <1>3, <1>4 DEF IInv, PaidAccounted
  <1>8. SavedProofVerified'
    BY <1>1, <1>2, <1>3, <1>4 DEF IInv, SavedProofVerified, WaitingPersisted, Saving
  <1>9. Unsubmitted' /\ Persisting'
    BY <1>1, <1>2, <1>3 DEF IInv, TypeOK, Unsubmitted, Persisting
  <1>10. Saving'
    BY <1>1, <1>2, <1>3 DEF IInv, Saving
  <1> QED
    BY <1>5, <1>6, <1>7, <1>8, <1>9, <1>10 DEF IInv

\* resume waits for the request in the file.
LEMMA ReadIdIInv ==
    ASSUME SingleProcess, IInv, NEW p \in Process, ReadId(p)
    PROVE  IInv'
  <1>1. \A q \in Process : q = p
    BY DEF SingleProcess
  <1>2. /\ proc[p].at = "read"
        /\ UNCHANGED <<vkey_file, id_file, proof_file, requests, balance, lost, faults>>
    BY DEF ReadId, At, files, network, IInv, Parses
  <1>3. /\ \/ /\ proc'[p].at = "wait"
              /\ proc'[p].submit = proc[p].submit
              /\ proc'[p].request = id_file
              /\ id_file \in Request
           \/ /\ proc'[p].at = "idle"
              /\ proc'[p].submit = FALSE
              /\ proc'[p].request = 0
        /\ proc' \in [Process -> [at : Places, submit : BOOLEAN, request : {0} \cup Request]]
    <2>1. CASE Parses(id_file)
      <3>1. /\ id_file \in Request
            /\ proc' = [proc EXCEPT ![p].at = "wait", ![p].request = id_file]
            /\ "wait" \in Places
        BY <2>1 DEF ReadId, Parses, IInv, TypeOK, Places
      <3> QED
        BY <3>1, TakeProc DEF IInv
    <2>2. CASE ~Parses(id_file)
      BY <2>2, ExitProc DEF ReadId, IInv
    <2> QED
      BY <2>1, <2>2
  <1>4. Request' = Request /\ Absent \notin Request /\ Partial \notin Request
    BY <1>2, NotRequests DEF IInv, TypeOK, Request
  <1>5. TypeOK'
    BY <1>1, <1>2, <1>3, <1>4 DEF IInv, TypeOK, Submitted, WaitingPersisted
  <1>6. WaitingPersisted'
    BY <1>1, <1>2, <1>3 DEF IInv, WaitingPersisted
  <1>7. PaidAccounted'
    BY <1>1, <1>2, <1>3, <1>4 DEF IInv, PaidAccounted
  <1>8. SavedProofVerified'
    BY <1>1, <1>2, <1>3, <1>4 DEF IInv, SavedProofVerified, WaitingPersisted, Saving
  <1>9. Unsubmitted' /\ Persisting'
    BY <1>1, <1>2, <1>3 DEF IInv, TypeOK, Unsubmitted, Persisting
  <1>10. Saving'
    BY <1>1, <1>2, <1>3 DEF IInv, Saving
  <1> QED
    BY <1>5, <1>6, <1>7, <1>8, <1>9, <1>10 DEF IInv

\* A proof is saved only when it is good.
LEMMA WaitProofIInv ==
    ASSUME SingleProcess, IInv, NEW p \in Process, WaitProof(p)
    PROVE  IInv'
  <1>1. \A q \in Process : q = p
    BY DEF SingleProcess
  <1>2. /\ proc[p].at = "wait"
        /\ UNCHANGED <<vkey_file, id_file, proof_file, requests, balance, lost, faults>>
    BY DEF WaitProof, At, files, network, IInv, Accepts
  <1>3. /\ \/ /\ proc'[p].at = "create proof"
              /\ proc'[p].submit = proc[p].submit
              /\ proc'[p].request = proc[p].request
              /\ requests[proc[p].request] = "good"
           \/ /\ proc'[p].at = "idle"
              /\ proc'[p].submit = FALSE
              /\ proc'[p].request = 0
        /\ proc' \in [Process -> [at : Places, submit : BOOLEAN, request : {0} \cup Request]]
    BY GotoProc, ExitProc DEF WaitProof, At, IInv, Places, Accepts
  <1>4. Request' = Request /\ Absent \notin Request /\ Partial \notin Request
    BY <1>2, NotRequests DEF IInv, TypeOK, Request
  <1>5. TypeOK'
    BY <1>1, <1>2, <1>3, <1>4 DEF IInv, TypeOK, Submitted, WaitingPersisted
  <1>6. WaitingPersisted'
    BY <1>1, <1>2, <1>3 DEF IInv, WaitingPersisted
  <1>7. PaidAccounted'
    BY <1>1, <1>2, <1>3, <1>4 DEF IInv, PaidAccounted
  <1>8. SavedProofVerified'
    BY <1>1, <1>2, <1>3, <1>4 DEF IInv, SavedProofVerified, WaitingPersisted, Saving
  <1>9. Unsubmitted' /\ Persisting'
    BY <1>1, <1>2, <1>3 DEF IInv, TypeOK, Unsubmitted, Persisting
  <1>10. Saving'
    BY <1>1, <1>2, <1>3 DEF IInv, Saving
  <1> QED
    BY <1>5, <1>6, <1>7, <1>8, <1>9, <1>10 DEF IInv

\* Saving truncates the file first.
LEMMA CreateProofIInv ==
    ASSUME SingleProcess, IInv, NEW p \in Process, CreateProof(p)
    PROVE  IInv'
  <1>1. \A q \in Process : q = p
    BY DEF SingleProcess
  <1>2. /\ proc[p].at = "create proof"
        /\ proof_file' = Partial
        /\ UNCHANGED <<vkey_file, id_file, requests, balance, lost, faults>>
    BY DEF CreateProof, At, files, network, IInv
  <1>3. /\ proc'[p].at = "fill proof"
        /\ proc'[p].submit = proc[p].submit
        /\ proc'[p].request = proc[p].request
        /\ proc' \in [Process -> [at : Places, submit : BOOLEAN, request : {0} \cup Request]]
    BY GotoProc, ExitProc DEF CreateProof, At, IInv, Places
  <1>4. Request' = Request /\ Absent \notin Request /\ Partial \notin Request
    BY <1>2, NotRequests DEF IInv, TypeOK, Request
  <1>5. TypeOK'
    BY <1>1, <1>2, <1>3, <1>4 DEF IInv, TypeOK, Submitted, WaitingPersisted
  <1>6. WaitingPersisted'
    BY <1>1, <1>2, <1>3 DEF IInv, WaitingPersisted
  <1>7. PaidAccounted'
    BY <1>1, <1>2, <1>3, <1>4 DEF IInv, PaidAccounted
  <1>8. SavedProofVerified'
    BY <1>1, <1>2, <1>3, <1>4 DEF IInv, SavedProofVerified, WaitingPersisted, Saving
  <1>9. Unsubmitted' /\ Persisting'
    BY <1>1, <1>2, <1>3 DEF IInv, TypeOK, Unsubmitted, Persisting
  <1>10. Saving'
    BY <1>1, <1>2, <1>3 DEF IInv, Saving
  <1> QED
    BY <1>5, <1>6, <1>7, <1>8, <1>9, <1>10 DEF IInv

\* The proof saved is of the request in the ID file.
LEMMA FillProofIInv ==
    ASSUME SingleProcess, IInv, NEW p \in Process, FillProof(p)
    PROVE  IInv'
  <1>1. \A q \in Process : q = p
    BY DEF SingleProcess
  <1>2. /\ proc[p].at = "fill proof"
        /\ proc[p].request \in Request
        /\ proof_file' = proc[p].request
        /\ UNCHANGED <<vkey_file, id_file, requests, balance, lost, faults>>
    BY DEF FillProof, At, files, network, IInv, TypeOK, Submitted
  <1>3. /\ proc'[p].at = "idle"
        /\ proc'[p].submit = FALSE
        /\ proc'[p].request = 0
        /\ proc' \in [Process -> [at : Places, submit : BOOLEAN, request : {0} \cup Request]]
    BY GotoProc, ExitProc DEF FillProof, At, IInv, Places
  <1>4. Request' = Request /\ Absent \notin Request /\ Partial \notin Request
    BY <1>2, NotRequests DEF IInv, TypeOK, Request
  <1>5. TypeOK'
    BY <1>1, <1>2, <1>3, <1>4 DEF IInv, TypeOK, Submitted, WaitingPersisted
  <1>6. WaitingPersisted'
    BY <1>1, <1>2, <1>3 DEF IInv, WaitingPersisted
  <1>7. PaidAccounted'
    BY <1>1, <1>2, <1>3, <1>4 DEF IInv, PaidAccounted
  <1>8. SavedProofVerified'
    BY <1>1, <1>2, <1>3, <1>4 DEF IInv, SavedProofVerified, WaitingPersisted, Saving
  <1>9. Unsubmitted' /\ Persisting'
    BY <1>1, <1>2, <1>3 DEF IInv, TypeOK, Unsubmitted, Persisting
  <1>10. Saving'
    BY <1>1, <1>2, <1>3 DEF IInv, Saving
  <1> QED
    BY <1>5, <1>6, <1>7, <1>8, <1>9, <1>10 DEF IInv

\* A process that stops before its ID is in the file loses its request.
LEMMA StopIInv ==
    ASSUME SingleProcess, IInv, NEW p \in Process, Stop(p)
    PROVE  IInv'
  <1>1. \A q \in Process : q = p
    BY DEF SingleProcess
  <1>2. /\ faults > 0 /\ faults' = faults - 1
        /\ \/ proc[p].at \in {"create id", "fill id"} /\ lost' = lost \cup {proc[p].request}
              /\ proc[p].request \in Request
           \/ proc[p].at \notin {"create id", "fill id"} /\ lost' = lost
        /\ UNCHANGED <<vkey_file, id_file, proof_file, requests, balance>>
    BY DEF Stop, At, files, network, IInv, TypeOK, Submitted
  <1>3. /\ proc'[p].at = "idle"
        /\ proc'[p].submit = FALSE
        /\ proc'[p].request = 0
        /\ proc' \in [Process -> [at : Places, submit : BOOLEAN, request : {0} \cup Request]]
    BY GotoProc, ExitProc DEF Stop, At, IInv, Places
  <1>4. Request' = Request /\ Absent \notin Request /\ Partial \notin Request
    BY <1>2, NotRequests DEF IInv, TypeOK, Request
  <1>5. TypeOK'
    <2>0. /\ faults \in 0 .. MaxFaults /\ MaxFaults \in Nat
          /\ faults > 0 /\ faults' = faults - 1
      BY <1>2, ProverClientAssumption DEF IInv, TypeOK
    <2>1. faults' \in 0 .. MaxFaults
      BY ONLY <2>0
    <2> QED
      BY <1>1, <1>2, <1>3, <1>4, <2>1 DEF IInv, TypeOK, Submitted
  <1>6. WaitingPersisted'
    BY <1>1, <1>2, <1>3 DEF IInv, WaitingPersisted
  <1>7. PaidAccounted'
    <2>1. ASSUME NEW r \in Request, id_file # r
          PROVE  r \in lost'
      BY <1>1, <1>2, <2>1 DEF IInv, PaidAccounted
    <2> QED
      BY <1>2, <1>4, <2>1 DEF PaidAccounted
  <1>8. SavedProofVerified'
    BY <1>1, <1>2, <1>3, <1>4 DEF IInv, SavedProofVerified, WaitingPersisted, Saving
  <1>9. Unsubmitted' /\ Persisting'
    BY <1>1, <1>2, <1>3 DEF IInv, TypeOK, Unsubmitted, Persisting
  <1>10. Saving'
    BY <1>1, <1>2, <1>3 DEF IInv, Saving
  <1> QED
    BY <1>5, <1>6, <1>7, <1>8, <1>9, <1>10 DEF IInv

\* A submission adds a request that its process is about to persist, or that is
\* lost with the answer.
LEMMA SubmitIInv ==
    ASSUME SingleProcess, IInv, NEW p \in Process, Submit(p)
    PROVE  IInv'
  <1>1. \A q \in Process : q = p
    BY DEF SingleProcess
  <1>2. /\ requests' \in Seq(Outcome)
        /\ Len(requests) \in Nat
        /\ Len(requests') = Len(requests) + 1
        /\ \A i \in 1 .. Len(requests) : requests'[i] = requests[i]
    BY Appended DEF Submit, IInv, TypeOK
  <1>3. /\ At(p, "submit") /\ balance > 0 /\ balance' = balance - 1
        /\ UNCHANGED files
        /\ id_file = Absent /\ proof_file = Absent
    BY DEF Submit, IInv, Unsubmitted, At
  <1>4. DEFINE n == Len(requests')
  <1>5. /\ Request' = Request \cup {n} /\ n \notin Request
        /\ Absent \notin Request' /\ Partial \notin Request'
    BY <1>2, NotRequests DEF Request
  <1>6. balance' \in 0 .. MaxRequests
    BY <1>3, ProverClientAssumption DEF IInv, TypeOK
  <1> HIDE DEF n
  <1>7. CASE proc' = [proc EXCEPT ![p].at = AfterSubmit, ![p].request = n]
             /\ UNCHANGED <<lost, faults>>
    <2>1. /\ proc'[p].at = "create id"
          /\ proc'[p].request = n
          /\ proc' \in [Process -> [at : Places, submit : BOOLEAN, request : {0} \cup Request']]
      BY <1>5, <1>7, TakeProc DEF AfterSubmit, Places, IInv
    <2>2. TypeOK'
      BY <1>1, <1>2, <1>3, <1>5, <1>6, <1>7, <2>1 DEF IInv, TypeOK, files
    <2>3. WaitingPersisted' /\ SavedProofVerified' /\ Unsubmitted' /\ Persisting' /\ Saving'
      BY <1>1, <1>3, <1>5, <2>1 DEF WaitingPersisted, SavedProofVerified, Unsubmitted, Persisting,
             Saving, files
    <2>4. PaidAccounted'
      BY <1>1, <1>3, <1>5, <1>7, <2>1 DEF IInv, PaidAccounted, At, files
    <2> QED
      BY <2>2, <2>3, <2>4 DEF IInv
  <1>8. CASE /\ faults > 0 /\ faults' = faults - 1
             /\ lost' = lost \cup {n}
             /\ Exit(p)
    <2>1. /\ proc'[p].at = "idle"
          /\ ~proc'[p].submit
          /\ proc' \in [Process -> [at : Places, submit : BOOLEAN, request : {0} \cup Request]]
      BY <1>8, ExitProc DEF IInv
    <2>2. faults' \in 0 .. MaxFaults
      BY <1>8, ProverClientAssumption DEF IInv, TypeOK
    <2>3. proc' \in [Process -> [at : Places, submit : BOOLEAN, request : {0} \cup Request']]
      BY <1>5, <2>1
    <2>4. TypeOK'
      BY <1>1, <1>2, <1>3, <1>5, <1>6, <1>8, <2>1, <2>2, <2>3 DEF IInv, TypeOK, Submitted, files
    <2>5. WaitingPersisted' /\ SavedProofVerified' /\ Unsubmitted' /\ Persisting' /\ Saving'
      BY <1>1, <1>3, <1>5, <2>1 DEF WaitingPersisted, SavedProofVerified, Unsubmitted, Persisting,
             Saving, files
    <2>6. PaidAccounted'
      BY <1>1, <1>3, <1>5, <1>8, <2>1 DEF IInv, PaidAccounted, At, files
    <2> QED
      BY <2>4, <2>5, <2>6 DEF IInv
  <1> QED
    BY <1>7, <1>8 DEF Submit, n

\* Settling a request leaves those that were settled before.
LEMMA SettleIInv ==
    ASSUME IInv, NEW r \in Request, Settle(r)
    PROVE  IInv'
  <1>1. PICK outcome \in Outcome : requests' = [requests EXCEPT ![r] = outcome]
    BY DEF Settle
  <1>2. /\ requests' \in Seq(Outcome)
        /\ Len(requests') = Len(requests)
        /\ \A i \in 1 .. Len(requests) : i # r => requests'[i] = requests[i]
    BY <1>1, Settled DEF IInv, TypeOK, Request
  <1>3. requests[r] = "pending" /\ UNCHANGED <<vkey_file, id_file, proof_file, proc, balance, lost, faults>>
    BY DEF Settle, files
  <1>4. Request' = Request
    BY <1>2 DEF Request
  <1>5. TypeOK'
    BY <1>2, <1>3, <1>4 DEF IInv, TypeOK
  <1>6. \A i \in Request : requests[i] = "good" => requests'[i] = "good"
    BY <1>2, <1>3 DEF Request
  <1>7. WaitingPersisted' /\ PaidAccounted' /\ Unsubmitted' /\ Persisting'
    BY <1>3, <1>4 DEF IInv, WaitingPersisted, PaidAccounted, Unsubmitted, Persisting
  <1>8. SavedProofVerified'
    BY <1>3, <1>4, <1>6 DEF IInv, SavedProofVerified
  <1>9. Saving'
    BY <1>3, <1>6 DEF IInv, Saving, TypeOK, Submitted
  <1> QED
    BY <1>5, <1>7, <1>8, <1>9 DEF IInv

\* The account's other payments do not matter to it, nor does stuttering.
LEMMA SpendIInv ==
    ASSUME IInv, Spend \/ UNCHANGED vars
    PROVE  IInv'
  <1>1. UNCHANGED <<vkey_file, id_file, proof_file, proc, requests, lost, faults>>
    BY DEF Spend, vars, files
  <1>2. balance' \in 0 .. MaxRequests
    BY ProverClientAssumption DEF Spend, vars, IInv, TypeOK
  <1>3. Request' = Request
    BY <1>1 DEF Request
  <1>4. TypeOK'
    BY <1>1, <1>2, <1>3 DEF IInv, TypeOK
  <1>5. WaitingPersisted' /\ PaidAccounted' /\ Unsubmitted' /\ Persisting'
    BY <1>1, <1>3 DEF IInv, WaitingPersisted, PaidAccounted, Unsubmitted, Persisting
  <1>6. SavedProofVerified' /\ Saving'
    BY <1>1, <1>3 DEF IInv, SavedProofVerified, Saving
  <1> QED
    BY <1>4, <1>5, <1>6 DEF IInv

\* The inductive invariant, when processes do not overlap.
THEOREM SpecIInv == ASSUME SingleProcess PROVE Spec => []IInv
  <1>1. IInv /\ [Next]_vars => IInv'
    BY ProveIInv, ResumeIInv, QueryQuoteIInv, VerifyVkeyIInv, CreateVkeyIInv, FillVkeyIInv,
       SubmitIInv, SubmitRefusedIInv, CreateIdIInv, FillIdIInv, ReadIdIInv, WaitProofIInv,
       CreateProofIInv, FillProofIInv, StopIInv, SettleIInv, SpendIInv DEF Next, Run
  <1> QED
    BY <1>1, InitIInv, PTL DEF Spec

\* Types, for any number of requests and faults.
THEOREM TypeCorrect == ASSUME SingleProcess PROVE Spec => []TypeOK
  BY SpecIInv, PTL DEF IInv

\* A process that waits has persisted its request: stopping it loses nothing.
THEOREM WaitingAlwaysPersisted == ASSUME SingleProcess PROVE Spec => []WaitingPersisted
  BY SpecIInv, PTL DEF IInv

\* A request that was paid for can only be lost between its acceptance and the
\* end of the write of its ID.
THEOREM PaidAlwaysAccounted == ASSUME SingleProcess PROVE Spec => []PaidAccounted
  BY SpecIInv, PTL DEF IInv

\* A complete proof file is a verified proof of the persisted request.
THEOREM SavedProofAlwaysVerified == ASSUME SingleProcess PROVE Spec => []SavedProofVerified
  BY SpecIInv, PTL DEF IInv

\* Only a submission adds a request.
LEMMA OthersKeepRequests ==
    ASSUME IInv, [Next]_vars, ~\E p \in Process : Submit(p)
    PROVE  Len(requests') = Len(requests)
  <1>1. CASE \E r \in Request : Settle(r)
    <2>1. PICK r \in Request : Settle(r)
      BY <1>1
    <2>2. PICK outcome \in Outcome : requests' = [requests EXCEPT ![r] = outcome]
      BY <2>1 DEF Settle
    <2> QED
      BY <2>2, Settled DEF IInv, TypeOK, Request
  <1>2. CASE Spend \/ UNCHANGED vars
    BY <1>2 DEF Spend, vars
  <1>3. CASE \E p \in Process : Prove(p) \/ Resume(p) \/ Run(p) \/ Stop(p)
    <2>1. PICK p \in Process : Prove(p) \/ Resume(p) \/ Run(p) \/ Stop(p)
      BY <1>3
    <2>2. UNCHANGED requests
      BY <2>1 DEF Run, Prove, Resume, Stop, QueryQuote, VerifyVkey, CreateVkey, FillVkey,
         SubmitRefused, CreateId, FillId, ReadId, WaitProof, CreateProof, FillProof, network
    <2> QED
      BY <2>2
  <1> QED
    BY <1>1, <1>2, <1>3 DEF Next

\* When processes do not overlap nothing is submitted over an ID or a proof
\* file, complete or not, although the files are looked for long before.
THEOREM AlwaysSubmitsOnlyWithoutFiles ==
    ASSUME SingleProcess PROVE Spec => SubmitsOnlyWithoutFiles
  <1>1. IInv /\ [Next]_vars
          => [Len(requests') > Len(requests) => id_file = Absent /\ proof_file = Absent]_vars
    <2> SUFFICES ASSUME IInv, [Next]_vars, Len(requests') > Len(requests)
                 PROVE  id_file = Absent /\ proof_file = Absent
      OBVIOUS
    <2>1. Len(requests) \in Nat
      BY DEF IInv, TypeOK
    <2>2. PICK p \in Process : Submit(p)
      BY <2>1, OthersKeepRequests
    <2> QED
      BY <2>2 DEF Submit, At, IInv, Unsubmitted
  <1> QED
    BY <1>1, SpecIInv, PTL DEF Spec, SubmitsOnlyWithoutFiles
=============================================================================
