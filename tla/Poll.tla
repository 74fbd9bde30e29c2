-------------------------------- MODULE Poll --------------------------------
(***************************************************************************)
(* GET /research/{job_id} beside the handlers and the runs of JobLifecycle *)
(* (poll_research in app/api/research.py).  One consumer polls again and   *)
(* again, waiting for each answer.  A poll reads the record, the cancel    *)
(* flag and the result with three Redis commands, so its answer is put     *)
(* together from three moments.  It writes nothing: the steps of the job   *)
(* are those of JobLifecycle.                                              *)
(***************************************************************************)
EXTENDS JobLifecycle

VARIABLES
  pollPc,     \* "idle" between polls, else the next read
  pollRec,    \* the record this poll loaded
  pollFlag,   \* the flag this poll read
  acked,      \* a cancel had been answered cancel_requested when it began
  answer      \* the last answer

pollVars == <<pollPc, pollRec, pollFlag, acked, answer>>

\* What the consumer is told: JobStatusResponse, or a 404.  held is what
\* findings and proposed_actions of the answer hold.
Answer(record, cancelRequested, held) ==
  [status |-> record.status, attempt |-> record.attempt,
   cancelRequested |-> cancelRequested, held |-> held]

NotFound == Answer(Absent, FALSE, NoResult)

PollInit ==
  /\ Init
  /\ pollPc = "idle"
  /\ pollRec = Absent
  /\ pollFlag = FALSE
  /\ acked = FALSE
  /\ answer = NotFound

Respond(a) ==
  /\ answer' = a
  /\ pollPc' = "idle"
  /\ pollRec' = Absent
  /\ pollFlag' = FALSE
  /\ acked' = FALSE

\* _authorized_job; only a 202 tells a consumer the job_id.
PollLoad ==
  /\ pollPc = "idle" /\ pc[Submit] = "accepted"
  /\ \E authorized \in AuthorizedJob :
       \/ ~authorized /\ Respond(NotFound)
       \/ /\ authorized
          /\ pollPc' = "flag"
          /\ pollRec' = job
          /\ acked' = (\E c \in Cancels : pc[c] = "requested")
          /\ UNCHANGED <<pollFlag, answer>>

\* is_cancel_requested; the result is read for a completed record only.
PollFlag ==
  /\ pollPc = "flag"
  /\ \/ /\ pollRec.status = "completed"
        /\ pollPc' = "result"
        /\ pollFlag' = cancelFlag
        /\ UNCHANGED <<pollRec, acked, answer>>
     \/ /\ pollRec.status # "completed"
        /\ Respond(Answer(pollRec, cancelFlag, NoResult))

\* get_result; without a document the status is served alone.
PollResult ==
  /\ pollPc = "result"
  /\ Respond(Answer(pollRec, pollFlag, result))

PollNext ==
  \/ Next /\ UNCHANGED pollVars
  \/ (PollLoad \/ PollFlag \/ PollResult) /\ UNCHANGED vars

PollSpec == PollInit /\ [][PollNext]_<<vars, pollVars>>

PollFairSpec == PollSpec /\ Fairness

-----------------------------------------------------------------------------
(* Properties *)

\* A poll that loaded a COMPLETED record answers with the findings, unless
\* their two hours are over, and every action it offers is stored or has run
\* out (or was used) since, whichever attempt saved its result last and
\* whatever was saved, overwritten or expired between the poll's reads.
AnswerComplete ==
  answer.status = "completed" =>
    /\ answer.held.saved \/ "result" \in lapsed
    /\ answer.held.actions \subseteq proposals \cup lapsed

\* After a cancel was answered cancel_requested, a poll that still says
\* running says cancel_requested too, or the job ended (or expired) while it was
\* under way (its transition deletes the flag between the two reads), or the
\* flag reached its TTL.
AckedCancelVisible ==
  [][/\ pollPc = "flag" /\ pollPc' = "idle" /\ acked
     /\ answer'.status = "running" /\ ~SecondWriter
     => \/ answer'.cancelRequested
        \/ job.status \in TERMINAL_STATES \cup {"absent"}
        \/ "cancel" \in lapsed
    ]_<<vars, pollVars>>

\* What a consumer sees moves forward from one answer to the next: a terminal
\* status stays, running is not followed by queued, attempts do not go back.
\* Only a second writer of the record can break that.
AnswersMoveForward ==
  [][/\ answer' # answer /\ NotFound \notin {answer, answer'} /\ ~SecondWriter
     => /\ answer.status \in TERMINAL_STATES => answer'.status = answer.status
        /\ answer.status = "running" => answer'.status # "queued"
        /\ answer.attempt <= answer'.attempt
    ]_<<vars, pollVars>>

=============================================================================
