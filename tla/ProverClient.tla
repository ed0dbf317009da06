---------------------------- MODULE ProverClient ----------------------------
(***************************************************************************)
(* The proof requester (network-prover/src/main.rs): prove submits a paid  *)
(* request to the proving network, persists its ID, waits for the proof,   *)
(* verifies and saves it; resume starts from the persisted ID.             *)
(*                                                                         *)
(* An action is what happens between two points where the process may stop *)
(* or another one may run: an await, or the two halves of fs::write, which *)
(* creates or truncates the file and then fills it.  The network and the   *)
(* operator, who starts processes, are external.                           *)
(***************************************************************************)
EXTENDS Integers, Sequences

CONSTANTS Process,      \* processes that may run at the same time
          MaxRequests,  \* bound: requests the account can pay for
          MaxFaults     \* bound: crashes, network errors and timeouts

ASSUME ProverClientAssumption ==
    /\ MaxRequests \in Nat
    /\ MaxFaults \in Nat

VARIABLES vkey_file,    \* Absent, Partial, or what the file says
          id_file,      \* Absent, Partial, or a request
          proof_file,   \* Absent, Partial, or the request whose proof it holds
          proc,         \* the processes
          requests,     \* the requests of the account, paid for, and their outcomes
          balance,      \* requests the account can still pay for
          lost,         \* requests whose ID did not reach the file
          faults        \* faults that may still happen

vars == <<vkey_file, id_file, proof_file, proc, requests, balance, lost, faults>>
files == <<vkey_file, id_file, proof_file>>
network == <<requests, balance>>

Absent  == 0
Partial == -1
Vkey    == 1            \* the verifying key of the approved ELF
Other   == 2            \* any other text in its file

Outcome == {"pending", "good", "wrong values", "invalid", "unfulfillable"}
Request == 1 .. Len(requests)

Idle == [at |-> "idle", submit |-> FALSE, request |-> 0]

Init ==
    /\ vkey_file \in {Absent, Other}
    /\ id_file = Absent
    /\ proof_file = Absent
    /\ proc = [p \in Process |-> Idle]
    /\ requests = <<>>
    /\ balance \in 0 .. MaxRequests
    /\ lost = {}
    /\ faults = MaxFaults

At(p, place) == proc[p].at = place
Goto(p, place) == proc' = [proc EXCEPT ![p].at = place]
Exit(p) == proc' = [proc EXCEPT ![p] = Idle]

-----------------------------------------------------------------------------
(* Starting.                                                               *)

\* Mutant: only the proof file is looked for.
RefusesToSubmitProofOnly == proof_file # Absent

\* prove does not submit over existing files.
RefusesToSubmit == id_file # Absent \/ proof_file # Absent

\* The input and the ELF are valid; a prove that refuses changes nothing.
Prove(p) ==
    /\ At(p, "idle")
    /\ ~RefusesToSubmit
    /\ proc' = [proc EXCEPT ![p] = [at |-> "quote", submit |-> TRUE, request |-> 0]]
    /\ UNCHANGED <<files, network, lost, faults>>

Resume(p) ==
    /\ At(p, "idle")
    /\ proc' = [proc EXCEPT ![p] = [at |-> "quote", submit |-> FALSE, request |-> 0]]
    /\ UNCHANGED <<files, network, lost, faults>>

\* Mutant: the balance is required of every command.
TooPoorAlways(submit) == balance < 1

\* The balance must cover the request cap, if one is to be submitted.
TooPoor(submit) == submit /\ balance < 1

\* query_quote, and the comparison with the balance.
QueryQuote(p) ==
    /\ At(p, "quote")
    /\ IF TooPoor(proc[p].submit) THEN Exit(p) ELSE Goto(p, "vkey")
    /\ UNCHANGED <<files, network, lost, faults>>

AfterVkey(p) == IF proc[p].submit THEN "submit" ELSE "read"

\* write_or_verify_text of the program vkey.
VerifyVkey(p) ==
    /\ At(p, "vkey")
    /\ vkey_file # Absent
    /\ IF vkey_file = Vkey THEN Goto(p, AfterVkey(p)) ELSE Exit(p)
    /\ UNCHANGED <<files, network, lost, faults>>

CreateVkey(p) ==
    /\ At(p, "vkey")
    /\ vkey_file = Absent
    /\ vkey_file' = Partial
    /\ Goto(p, "fill vkey")
    /\ UNCHANGED <<id_file, proof_file, network, lost, faults>>

FillVkey(p) ==
    /\ At(p, "fill vkey")
    /\ vkey_file' = Vkey
    /\ Goto(p, AfterVkey(p))
    /\ UNCHANGED <<id_file, proof_file, network, lost, faults>>

-----------------------------------------------------------------------------
(* Submitting.                                                             *)

\* Mutant: the ID is not persisted before waiting.
AfterSubmitWait == "wait"

\* What follows request().
AfterSubmit == "create id"

\* request(): the network accepts, and the answer arrives or is lost.
Submit(p) ==
    /\ At(p, "submit")
    /\ balance > 0
    /\ requests' = Append(requests, "pending")
    /\ balance' = balance - 1
    /\ \/ /\ proc' = [proc EXCEPT ![p].at = AfterSubmit, ![p].request = Len(requests')]
          /\ UNCHANGED <<lost, faults>>
       \/ /\ faults > 0
          /\ faults' = faults - 1
          /\ lost' = lost \cup {Len(requests')}
          /\ Exit(p)
    /\ UNCHANGED files

\* The network refuses: the balance that was quoted is gone.
SubmitRefused(p) ==
    /\ At(p, "submit")
    /\ balance = 0
    /\ Exit(p)
    /\ UNCHANGED <<files, network, lost, faults>>

\* write_text of the request ID.
CreateId(p) ==
    /\ At(p, "create id")
    /\ id_file' = Partial
    /\ Goto(p, "fill id")
    /\ UNCHANGED <<vkey_file, proof_file, network, lost, faults>>

FillId(p) ==
    /\ At(p, "fill id")
    /\ id_file' = proc[p].request
    /\ Goto(p, "wait")
    /\ UNCHANGED <<vkey_file, proof_file, network, lost, faults>>

\* The file can be read and B256::from_str accepts its text.
Parses(text) == text \notin {Absent, Partial}

\* resume reads and parses the file.
ReadId(p) ==
    /\ At(p, "read")
    /\ IF Parses(id_file)
       THEN proc' = [proc EXCEPT ![p].at = "wait", ![p].request = id_file]
       ELSE Exit(p)
    /\ UNCHANGED <<files, network, lost, faults>>

-----------------------------------------------------------------------------
(* Waiting and saving.                                                     *)

\* Mutant: the public values are taken from the proof.
AcceptsAnyValues(outcome) == outcome \in {"good", "wrong values"}

\* verify_and_save: the public values are the expected hash and SP1 verifies.
Accepts(outcome) == outcome = "good"

\* wait_proof returns a proof, which is verified, or an error.
WaitProof(p) ==
    /\ At(p, "wait")
    /\ requests[proc[p].request] # "pending"
    /\ IF Accepts(requests[proc[p].request]) THEN Goto(p, "create proof") ELSE Exit(p)
    /\ UNCHANGED <<files, network, lost, faults>>

CreateProof(p) ==
    /\ At(p, "create proof")
    /\ proof_file' = Partial
    /\ Goto(p, "fill proof")
    /\ UNCHANGED <<vkey_file, id_file, network, lost, faults>>

FillProof(p) ==
    /\ At(p, "fill proof")
    /\ proof_file' = proc[p].request
    /\ Exit(p)
    /\ UNCHANGED <<vkey_file, id_file, network, lost, faults>>

-----------------------------------------------------------------------------
(* The environment.                                                        *)

\* The process stops: a crash at any point, a network error or a timeout at an
\* await.
Stop(p) ==
    /\ ~At(p, "idle")
    /\ faults > 0
    /\ faults' = faults - 1
    /\ lost' = IF proc[p].at \in {"create id", "fill id"} THEN lost \cup {proc[p].request} ELSE lost
    /\ Exit(p)
    /\ UNCHANGED <<files, network>>

\* The account pays for something else.
Spend ==
    /\ balance > 0
    /\ balance' = balance - 1
    /\ UNCHANGED <<files, proc, requests, lost, faults>>

\* The network settles a request.
Settle(r) ==
    /\ requests[r] = "pending"
    /\ \E outcome \in Outcome \ {"pending"} : requests' = [requests EXCEPT ![r] = outcome]
    /\ UNCHANGED <<files, proc, balance, lost, faults>>

Run(p) ==
    \/ QueryQuote(p) \/ VerifyVkey(p) \/ CreateVkey(p) \/ FillVkey(p)
    \/ Submit(p) \/ SubmitRefused(p) \/ CreateId(p) \/ FillId(p) \/ ReadId(p)
    \/ WaitProof(p) \/ CreateProof(p) \/ FillProof(p)

Next ==
    \/ \E p \in Process : Prove(p) \/ Resume(p) \/ Run(p) \/ Stop(p)
    \/ \E r \in Request : Settle(r)
    \/ Spend

Spec == Init /\ [][Next]_vars

\* A process that can take a step takes it, and the operator resumes again and
\* again, as README tells them to, whatever else they run.
FairSpec == Spec /\ \A p \in Process : WF_vars(Run(p)) /\ SF_vars(Resume(p))

-----------------------------------------------------------------------------
(* Properties.                                                             *)

Places == {"idle", "quote", "vkey", "fill vkey", "submit", "create id", "fill id", "read",
           "wait", "create proof", "fill proof"}
Submitted(place) == place \in {"create id", "fill id", "wait", "create proof", "fill proof"}

\* Files hold what is written to them, and a process past its submission has a
\* request.
TypeOK ==
    /\ vkey_file \in {Absent, Partial, Vkey, Other}
    /\ id_file \in {Absent, Partial} \cup Request
    /\ proof_file \in {Absent, Partial} \cup Request
    /\ requests \in Seq(Outcome)
    /\ balance \in 0 .. MaxRequests
    /\ lost \subseteq Request
    /\ faults \in 0 .. MaxFaults
    /\ proc \in [Process -> [at : Places, submit : BOOLEAN, request : {0} \cup Request]]
    /\ \A p \in Process : Submitted(proc[p].at) => proc[p].request \in Request

\* README: "The request ID is persisted before waiting."  Whenever a process
\* waits, resume would wait for the same request.
WaitingPersisted ==
    \A p \in Process : proc[p].at \in {"wait", "create proof", "fill proof"}
                          => id_file = proc[p].request

\* A request that was paid for is the one in the file, or is about to be, unless
\* the process stopped, or the answer was lost, before the file was complete.
\* In particular an ID, once persisted, is never replaced by that of another
\* request.
PaidAccounted ==
    \A r \in Request :
        \/ id_file = r
        \/ r \in lost
        \/ \E p \in Process : proc[p].at \in {"create id", "fill id"} /\ proc[p].request = r

\* A proof file that is complete holds a proof that was verified, of the request
\* in the ID file.
SavedProofVerified ==
    proof_file \in Request => requests[proof_file] = "good" /\ id_file = proof_file

\* README: resume recovers "without submitting or paying for a second request":
\* a persisted request that the network fulfils ends up as a saved proof, however
\* often processes stop.
ResumeCompletes ==
    \A r \in 1 .. MaxRequests :
        (id_file = r /\ r \in Request /\ requests[r] = "good") ~> (proof_file = r)

\* README: the requester "refuses to submit if a request-ID or proof file already
\* exists".
SubmitsOnlyWithoutFiles ==
    [][Len(requests') > Len(requests) => id_file = Absent /\ proof_file = Absent]_vars
=============================================================================
