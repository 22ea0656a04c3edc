------------------------------- MODULE Execution -------------------------------
(***************************************************************************)
(* A job inside the agent: the handler _handle_assign_job (agent.py), the  *)
(* executor's thread around the container (core/executor.py), the reader   *)
(* thread of the container's log and the task that streams it              *)
(* (core/log_streamer.py).  The four run at once; the handler joins them.  *)
(*                                                                         *)
(* A message that the cut of the connection swallows counts as sent after  *)
(* the cut.  While a handler runs nothing reconnects (Dispatch).  Docker   *)
(* and the program in the container are external.                          *)
(***************************************************************************)
EXTENDS Naturals, Sequences, SequencesExt

CONSTANTS
  Assigned,   \* the jobs that are assigned, each once
  NoJob,
  Polls,      \* how often the handler looks for the container (5 in the code)
  MaxLines,   \* bound: lines that a program writes
  MaxMishaps  \* bound: connections lost, Docker calls that fail, crashes

ASSUME ExecutionAssumption ==
  NoJob \notin Assigned /\ Polls \in Nat \ {0} /\ MaxLines \in Nat /\ MaxMishaps \in Nat

VARIABLES
  current,    \* _current_job_id
  handler,    \* where the handler of assign_job stands
  polls,      \* calls of get_container_for_job so far
  verdict,    \* the status that the handler will report
  linked,     \* the connection is up
  executor,   \* where the executor of each job stands
  result,     \* JobResult.status of each job
  container,  \* none, created (and not started), running, exited, or gone (removed)
  exitCode,   \* "none", "zero" or "other"
  written,    \* lines the program has written
  readers,    \* jobs whose log a reader thread follows
  read,       \* lines the reader thread has put into a queue that was read
  stream,     \* where the streaming task of the current job stands
  queue,      \* its queue: lines, and EndOfLog
  batch,      \* lines of the message being sent
  told,       \* what the backend gets about each job, in order
  mishapsSoFar,
  unminded,   \* history: jobs whose container the agent gave up on
  holed       \* history: jobs of which a message was lost on its way

handlerVars == <<current, handler, polls, verdict>>
dockerVars == <<executor, result, container, exitCode, written>>
logVars == <<readers, read, stream, queue, batch>>
historyVars == <<mishapsSoFar, unminded, holed>>
executionVars == <<handlerVars, linked, dockerVars, logVars, told, historyVars>>

EndOfLog == 0   \* the reader thread's sentinel None
Line == 1 .. MaxLines
Message == [status : {"log"}, line : Line]
             \cup [status : {"running", "completed", "failed"}, line : {0}]
HandlerStep == {"free", "announce", "poll", "await", "report", "failing", "upload", "stuck", "down"}
ExecutorStep == {"no", "download", "start", "wait", "remove", "over", "died"}
Result == {"none", "completed", "failed", "timeout", "error"}
StreamStep == {"none", "waiting", "sending", "asleep", "ending", "last", "over"}

ExecutionTypeOK ==
  /\ current \in Assigned \cup {NoJob} /\ handler \in HandlerStep /\ polls \in 0 .. Polls
  /\ verdict \in {"none", "completed", "failed"} /\ linked \in BOOLEAN
  /\ executor \in [Assigned -> ExecutorStep] /\ result \in [Assigned -> Result]
  /\ container \in [Assigned -> {"none", "created", "running", "exited", "gone"}]
  /\ exitCode \in [Assigned -> {"none", "zero", "other"}]
  /\ written \in [Assigned -> 0 .. MaxLines] /\ read \in [Assigned -> 0 .. MaxLines]
  /\ readers \subseteq Assigned /\ stream \in StreamStep
  /\ queue \in Seq(Line \cup {EndOfLog}) /\ batch \in Seq(Line)
  /\ told \in [Assigned -> Seq(Message)]
  /\ mishapsSoFar \in 0 .. MaxMishaps /\ unminded \subseteq Assigned /\ holed \subseteq Assigned

ExecutionInit ==
  /\ current = NoJob /\ handler = "free" /\ polls = 0 /\ verdict = "none" /\ linked = TRUE
  /\ executor = [j \in Assigned |-> "no"] /\ result = [j \in Assigned |-> "none"]
  /\ container = [j \in Assigned |-> "none"] /\ exitCode = [j \in Assigned |-> "none"]
  /\ written = [j \in Assigned |-> 0] /\ read = [j \in Assigned |-> 0]
  /\ readers = {} /\ stream = "none" /\ queue = <<>> /\ batch = <<>>
  /\ told = [j \in Assigned |-> <<>>]
  /\ mishapsSoFar = 0 /\ unminded = {} /\ holed = {}

Mishap == mishapsSoFar < MaxMishaps /\ mishapsSoFar' = mishapsSoFar + 1

\* The messages of a job, as the backend gets them.
ToBackend(messages) == told' = [told EXCEPT ![current] = @ \o messages]
Log(lines) == [i \in DOMAIN lines |-> [status |-> "log", line |-> lines[i]]]

\* get_container_for_job: docker finds a container by its name until it is removed.
HasContainer(j) == container[j] \in {"created", "running", "exited"}

-----------------------------------------------------------------------------
(* The handler of assign_job.                                              *)

Assign(j) ==
  /\ handler = "free" /\ linked
  /\ executor[j] = "no" /\ j \notin holed  \* the backend sends it once
  /\ current' = j /\ handler' = "announce" /\ polls' = 0 /\ verdict' = "none"
  /\ stream' = "none" /\ queue' = <<>> /\ batch' = <<>>
  /\ UNCHANGED <<linked, dockerVars, readers, read, told, historyVars>>

\* send_job_status: to a connection that is gone it writes without an error,
\* or waits for a reconnection that this handler's return must bring about.
SendStatus(s, then) ==
  \/ /\ linked
     /\ ToBackend(<<[status |-> s, line |-> 0]>>)
     /\ handler' = then /\ UNCHANGED holed
  \/ /\ ~linked
     /\ handler' \in {then, "stuck"}
     /\ holed' = holed \cup {current} /\ UNCHANGED told

\* "running" is sent before _execute_with_streaming makes the task of execute.
Announce ==
  /\ handler = "announce"
  /\ SendStatus("running", "poll")
  /\ executor' = [executor EXCEPT ![current] = IF handler' = "poll" THEN "download" ELSE @]
  /\ UNCHANGED <<current, polls, verdict, linked, result, container, exitCode, written,
                 logVars, mishapsSoFar, unminded>>

\* Every two seconds, five times at most: is the container there?
Poll ==
  /\ handler = "poll"
  /\ IF HasContainer(current)
     THEN /\ handler' = "await" /\ stream' = "waiting" /\ readers' = readers \cup {current}
          /\ UNCHANGED polls
     ELSE /\ polls' = polls + 1
          /\ handler' = IF polls' = Polls THEN "await" ELSE "poll"
          /\ UNCHANGED <<stream, readers>>
  /\ UNCHANGED <<current, verdict, linked, dockerVars, read, queue, batch, told, historyVars>>

\* A Docker error other than NotFound leaves _execute_with_streaming, which has
\* not awaited the task of execute: that goes on, and the job is reported failed.
PollFails ==
  /\ handler = "poll" /\ Mishap
  /\ handler' = "failing" /\ verdict' = "failed"
  /\ unminded' = IF executor[current] = "over" THEN unminded ELSE unminded \cup {current}
  /\ UNCHANGED <<current, polls, linked, dockerVars, logVars, told, holed>>

\* The lines that wait: the reader thread puts nothing behind its sentinel.
QueuedLines == IF Contains(queue, EndOfLog) THEN Front(queue) ELSE queue

\* Variation: the cancelled task ends without looking into its queue.
CancelStreamAtOnce ==
  /\ stream \in {"waiting", "asleep"} /\ stream' = "over"
  /\ batch' = <<>> /\ queue' = <<>>
  /\ UNCHANGED <<told, holed>>

\* stream_task.cancel(): the task drains its queue into a last message.  Of a
\* message that was being sent it is not known whether it left.
CancelStream ==
  /\ stream \in {"waiting", "asleep", "sending", "ending"}
  /\ \/ /\ stream \in {"sending", "ending"} /\ linked
        /\ ToBackend(Log(batch)) /\ UNCHANGED holed
     \/ /\ stream \in {"sending", "ending"}
        /\ holed' = holed \cup {current} /\ UNCHANGED told
     \/ stream \in {"waiting", "asleep"} /\ UNCHANGED <<told, holed>>
  /\ batch' = QueuedLines /\ queue' = <<>>
  /\ stream' = IF batch' = <<>> THEN "over" ELSE "last"

\* result = await exec_task, then the cancellation of the stream.
Collect ==
  /\ handler = "await" /\ executor[current] = "over"
  /\ CancelStream
  /\ UNCHANGED <<handlerVars, linked, dockerVars, readers, read, mishapsSoFar, unminded>>

\* await stream_task: "timeout" and "error" are reported as failed.
Conclude ==
  /\ handler = "await" /\ executor[current] = "over"
  /\ stream \in {"none", "over"}
  /\ verdict' = IF result[current] = "completed" THEN "completed" ELSE "failed"
  /\ handler' = "report"
  /\ UNCHANGED <<current, polls, linked, dockerVars, logVars, told, historyVars>>

\* Only a result with an output_dir (the program has ended) has artifacts; after
\* an exception the handler reports and returns.
Report ==
  /\ \/ /\ handler = "report"
        /\ SendStatus(verdict,
                      IF result[current] \in {"completed", "failed"} THEN "upload" ELSE "free")
     \/ handler = "failing" /\ SendStatus("failed", "free")
  /\ current' = IF handler' = "free" THEN NoJob ELSE current
  /\ UNCHANGED <<polls, verdict, linked, dockerVars, logVars, mishapsSoFar, unminded>>

\* ArtifactUploader.upload (JobFiles has what it stores), whatever comes of it.
UploadArtifacts ==
  /\ handler = "upload"
  /\ handler' = "free" /\ current' = NoJob
  /\ UNCHANGED <<polls, verdict, linked, dockerVars, logVars, told, historyVars>>

-----------------------------------------------------------------------------
(* The executor: execute, and _run_container in its thread.                *)

\* The executor of job j has result r.
Ends(j, r, then) ==
  /\ result' = [result EXCEPT ![j] = r]
  /\ executor' = [executor EXCEPT ![j] = then]

\* The files come, or one of them, or the image, does not: status "error".
Download(j) ==
  /\ executor[j] = "download"
  /\ \/ executor' = [executor EXCEPT ![j] = "start"] /\ UNCHANGED result
     \/ Ends(j, "error", "over")
  /\ UNCHANGED <<handlerVars, linked, container, exitCode, written, logVars, told, historyVars>>

\* containers.run creates a container and starts it.  If it raises, `container`
\* stays None and `finally` removes nothing: not what was created, and not what
\* the daemon has started while the answer to the start failed.
StartContainer(j) ==
  /\ executor[j] = "start"
  /\ \/ /\ executor' = [executor EXCEPT ![j] = "wait"]
        /\ container' = [container EXCEPT ![j] = "running"]
        /\ UNCHANGED <<result, mishapsSoFar, unminded>>
     \/ /\ Ends(j, "error", "over")
        /\ \/ UNCHANGED <<container, mishapsSoFar, unminded>>
           \/ container' = [container EXCEPT ![j] = "created"] /\ UNCHANGED <<mishapsSoFar, unminded>>
           \/ /\ container' = [container EXCEPT ![j] = "running"]
              /\ Mishap /\ unminded' = unminded \cup {j}
  /\ UNCHANGED <<handlerVars, linked, exitCode, written, logVars, told, holed>>

\* container.wait returns the exit code.
WaitReturns(j) ==
  /\ executor[j] = "wait" /\ container[j] = "exited"
  /\ Ends(j, IF exitCode[j] = "zero" THEN "completed" ELSE "failed", "remove")
  /\ UNCHANGED <<handlerVars, linked, container, exitCode, written, logVars, told, historyVars>>

\* It raises: max_timeout is over, at which moment the program may just have
\* ended, or the call failed otherwise.
WaitRaises(j) ==
  /\ executor[j] = "wait"
  /\ \E r \in {"timeout", "error"} : Ends(j, r, "remove")
  /\ UNCHANGED <<handlerVars, linked, container, exitCode, written, logVars, told, historyVars>>

\* Variation: the container is removed only when the program has ended.
RemoveEnded(j) ==
  /\ executor[j] = "remove"
  /\ executor' = [executor EXCEPT ![j] = "over"]
  /\ container' = [container EXCEPT ![j] = IF @ = "exited" THEN "gone" ELSE @]
  /\ UNCHANGED <<handlerVars, linked, result, exitCode, written, logVars, told, historyVars>>

\* finally: container.remove(force=True) kills what still runs; "except: pass".
RemoveContainer(j) ==
  /\ executor[j] = "remove"
  /\ executor' = [executor EXCEPT ![j] = "over"]
  /\ \/ container' = [container EXCEPT ![j] = "gone"] /\ UNCHANGED <<mishapsSoFar, unminded>>
     \/ Mishap /\ unminded' = unminded \cup {j} /\ UNCHANGED container
  /\ UNCHANGED <<handlerVars, linked, result, exitCode, written, logVars, told, holed>>

-----------------------------------------------------------------------------
(* The log: the reader thread and the streaming task.                      *)

\* What the thread puts into a queue that nobody reads any more is lost.
Followed(j) == j \in readers /\ j = current /\ stream \in {"waiting", "sending", "asleep"}

ReadLine(j) ==
  /\ Followed(j) /\ read[j] < written[j]
  /\ read' = [read EXCEPT ![j] = @ + 1]
  /\ queue' = Append(queue, read'[j])
  /\ UNCHANGED <<handlerVars, linked, dockerVars, readers, stream, batch, told, historyVars>>

\* The log ends with the program, at once if none was started, or is cut by the removal of the container.
EndReading(j) ==
  /\ j \in readers
  /\ \/ container[j] \in {"created", "exited"} /\ read[j] = written[j]
     \/ container[j] = "gone"
  /\ readers' = readers \ {j}
  /\ queue' = IF Followed(j) THEN Append(queue, EndOfLog) ELSE queue
  /\ UNCHANGED <<handlerVars, linked, dockerVars, read, stream, batch, told, historyVars>>

\* The lines that are there make a message; the sentinel ends the stream, after
\* the message if lines are before it.
TakeBatch ==
  /\ stream = "waiting" /\ queue # <<>>
  /\ batch' = QueuedLines /\ queue' = <<>>
  /\ stream' = CASE QueuedLines = <<>> -> "over"
                 [] Contains(queue, EndOfLog) -> "ending"
                 [] OTHER -> "sending"
  /\ UNCHANGED <<handlerVars, linked, dockerVars, readers, read, told, historyVars>>

\* _flush: a failed send is logged, and the lines are gone.
Flush ==
  /\ stream \in {"sending", "ending", "last"}
  /\ IF linked
     THEN ToBackend(Log(batch)) /\ UNCHANGED holed
     ELSE holed' = holed \cup {current} /\ UNCHANGED told
  /\ batch' = <<>>
  /\ stream' = IF stream = "sending" THEN "asleep" ELSE "over"
  /\ UNCHANGED <<handlerVars, linked, dockerVars, readers, read, queue, mishapsSoFar, unminded>>

\* batch_interval is over.
Wake ==
  /\ stream = "asleep" /\ stream' = "waiting"
  /\ UNCHANGED <<handlerVars, linked, dockerVars, readers, read, queue, batch, told, historyVars>>

-----------------------------------------------------------------------------
(* The program, the network, the process.                                  *)

WriteLine(j) ==
  /\ container[j] = "running" /\ written[j] < MaxLines
  /\ written' = [written EXCEPT ![j] = @ + 1]
  /\ UNCHANGED <<handlerVars, linked, executor, result, container, exitCode, logVars, told, historyVars>>

ExitProgram(j) ==
  /\ container[j] = "running"
  /\ container' = [container EXCEPT ![j] = "exited"]
  /\ \E code \in {"zero", "other"} : exitCode' = [exitCode EXCEPT ![j] = code]
  /\ UNCHANGED <<handlerVars, linked, executor, result, written, logVars, told, historyVars>>

LoseLink ==
  /\ linked /\ Mishap /\ linked' = FALSE
  /\ UNCHANGED <<handlerVars, dockerVars, logVars, told, unminded, holed>>

\* The listener has returned, and AgentWebSocket.start connects again.
Reconnect ==
  /\ ~linked /\ handler = "free" /\ linked' = TRUE
  /\ UNCHANGED <<handlerVars, dockerVars, logVars, told, historyVars>>

\* Docker goes on without the agent.
Crash ==
  /\ handler # "down" /\ Mishap
  /\ handler' = "down" /\ current' = NoJob /\ linked' = FALSE
  /\ executor' = [j \in Assigned |-> IF executor[j] \in {"no", "over"} THEN executor[j] ELSE "died"]
  /\ unminded' = unminded \cup {j \in Assigned : executor'[j] = "died"}
  /\ holed' = holed \cup ({current} \ {NoJob})
  /\ readers' = {} /\ stream' = "none" /\ queue' = <<>> /\ batch' = <<>>
  /\ UNCHANGED <<polls, verdict, result, container, exitCode, written, read, told>>

\* start() looks for no container of before.
Restart ==
  /\ handler = "down" /\ handler' = "free"
  /\ UNCHANGED <<current, polls, verdict, linked, dockerVars, logVars, told, historyVars>>

-----------------------------------------------------------------------------
ExecutionNext ==
  \/ \E j \in Assigned : \/ Assign(j) \/ Download(j) \/ StartContainer(j) \/ WaitReturns(j)
                         \/ WaitRaises(j) \/ RemoveContainer(j) \/ ReadLine(j) \/ EndReading(j)
                         \/ WriteLine(j) \/ ExitProgram(j)
  \/ Announce \/ Poll \/ PollFails \/ Collect \/ Conclude \/ Report \/ UploadArtifacts
  \/ TakeBatch \/ Flush \/ Wake
  \/ LoseLink \/ Reconnect \/ Crash \/ Restart

ExecutionSpec == ExecutionInit /\ [][ExecutionNext]_executionVars

-----------------------------------------------------------------------------
(* Properties.                                                             *)

LogPlaces(j) == {i \in DOMAIN told[j] : told[j][i].status = "log"}
IsEnd(m) == m.status \in {"completed", "failed"}

\* What the backend hears of a job is its story: the lines in the order in which
\* the program wrote them, none twice, then the end and nothing after it, where
\* completed means that the program exited with 0.  If no message was lost and
\* the end was told, no line that reached the streamer's queue is missing.
StoryIsTold ==
  \A j \in Assigned :
    /\ \A i, k \in LogPlaces(j) : i < k => told[j][i].line < told[j][k].line
    /\ \A i \in DOMAIN told[j] :
         IsEnd(told[j][i]) => /\ i = Len(told[j])
                              /\ told[j][i].status = "completed" => exitCode[j] = "zero"
                              /\ j \notin holed =>
                                   {told[j][k].line : k \in LogPlaces(j)} = 1 .. read[j]

\* A program runs only under the handler of its job: not after the end of the job
\* was reported, nor next to another job, unless the call that started it failed
\* all the same, a look for the container or its removal failed, or the agent died.
ProgramsAreMinded ==
  \A j \in Assigned :
    container[j] = "running" =>
      j \in unminded \/ (j = current /\ handler \in {"poll", "await"})
=============================================================================
