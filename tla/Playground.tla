----------------------------- MODULE Playground -----------------------------
(***************************************************************************)
(* The ACU conversation page of the web console: one conversation, the     *)
(* request that answers its last question, and its copy in localStorage.   *)
(*                                                                         *)
(* Sources (web/src/features/playground): hooks/use-stream-request.ts (the *)
(* latest-wins controller), hooks/use-chat-handler.ts (generations, chunk  *)
(* buffer, stop), hooks/use-playground-conversation.ts (send, regenerate,  *)
(* edit, delete), hooks/use-playground-state.ts (debounced saving), lib/   *)
(* message/*.ts (what each update does to the list) and lib/storage.       *)
(*                                                                         *)
(* One step is one run of the event loop: a user's click, a timer, a       *)
(* promise's continuation, an event of the stream, or a React render.      *)
(* setMessages only queues an updater: one called in a click is rendered   *)
(* before the click returns, any other later, and React may or may not run *)
(* the first updater of an empty queue at once. Handlers read the messages *)
(* of the last render, updaters the request generation of their own run.   *)
(*                                                                         *)
(* The chat handler and the stream controller each count generations; the  *)
(* same handlers advance both by one, so one counter stands for them. It   *)
(* goes on counting over mounts, where the code starts new counters in new *)
(* refs: a number stands for a counter and its value. Text is a sequence   *)
(* of numbered pieces, one per letter sent, so that a lost or doubled one  *)
(* shows; the code compares texts by their letters, which may repeat.      *)
(* Timing and think tags are left out, and so are other tabs.              *)
(***************************************************************************)
EXTENDS Integers, Sequences, FiniteSets

CONSTANTS
    Modes,       \* how answers come: deltas, growing snapshots, a reply, an image
    Letter,      \* the letter of each piece of text
    MaxGen,      \* bound: request generations started or stopped
    MaxPieces,   \* bound: pieces of text a stream sends
    MaxSubmits,  \* bound: submits whose files are being read at the same time
    MaxActs,     \* bound: clicks other than Stop and a prompt, reloads, saves
    MaxStored    \* MAX_STORED_MESSAGES: the saved list keeps the last ones

ASSUME PlaygroundAssumption ==
    /\ Modes \subseteq {"delta", "snapshot", "reply", "image"}
    /\ MaxGen \in Nat
    /\ MaxPieces \in Nat
    /\ MaxSubmits \in Nat
    /\ MaxActs \in Nat
    /\ MaxStored \in Nat \ {0}

None == -1
Gens == 1..MaxGen
Channels == {"content", "reasoning"}


\* Pieces that are not numbered text of a stream.
ErrorPiece == -1
EditPiece == -2

VARIABLES
    messages,    \* the list of the last render: setMessages' state
    updates,     \* updaters queued since the last render
    generation,  \* requestGenerationRef and the controller's generation
    headers,     \* stream requests that wait for getFreshAuthHeaders
    streams,     \* SSE objects that may still deliver an event
    source,      \* the controller's current source, None if there is none
    requests,    \* unanswered non-streaming requests
    aborted,     \* of those, the ones whose AbortController was aborted
    abortRef,    \* the request abortControllerRef belongs to
    isStreaming, isRequesting,
    shown,       \* isGenerating as of the last render: what disables controls
    pending,     \* pendingStreamChunksRef
    flushTimer,  \* the generation of streamFlushTimerRef's callback, or None
    editing,     \* editingMessageKey: {} or the key of one message
    converting,  \* submits whose files are being read: each has the list of
                 \* its render, and whether it has images
    clearOpen,   \* the confirmation of "Clear chat history" is open
    mounted,
    latest,      \* latestMessagesRef
    saveTimer,   \* messagesSaveTimerRef is set
    stored,      \* localStorage
    orphans,     \* lists that submits of pages left since may still save
    \* history
    mode,        \* how the answer of a generation is produced
    received,    \* pieces of each channel that reached a generation's handler
    done,        \* generations whose answer came to its end on this page
    cut,         \* generations of answers whose queued updates a click made void
    acts,        \* clicks, reloads and saves so far
    swallowed,   \* generations of which a delta was taken for a snapshot
    saveFailed   \* localStorage refused the last save, or an orphan wrote to it

requestVars == <<headers, streams, source, requests, aborted, abortRef>>
flagVars == <<isStreaming, isRequesting>>
chunkVars == <<pending, flushTimer>>
pageVars == <<editing, converting, clearOpen, mounted>>
listVars == <<messages, updates, shown, latest, saveTimer>>
saveVars == <<stored, saveFailed, orphans>>
historyVars == <<mode, received, done, cut, swallowed>>
vars == <<requestVars, flagVars, chunkVars, pageVars, listVars, saveVars,
          historyVars, generation, acts>>

-----------------------------------------------------------------------------
\* Messages. A message's key is its role and the generation that made it.

NoText == [c \in Channels |-> <<>>]
Key(m) == [from |-> m.from, gen |-> m.gen]
IsAnswer(m) == m.from = "assistant"
IsFinal(m) == m.status \in {"complete", "error"}
IsPending(m) == IsAnswer(m) /\ m.status \in {"loading", "streaming"}
Edited(m) == m.text["content"] = <<EditPiece>>
HasContent(m) == m.text["content"] # <<>>

\* image says whether the message has attachments.
UserMessage(g, image) ==
    [from |-> "user", gen |-> g, status |-> "sent", image |-> image,
     text |-> [NoText EXCEPT !["content"] = <<1>>]]

LoadingAnswer(g) ==
    [from |-> "assistant", gen |-> g, status |-> "loading", image |-> FALSE,
     text |-> NoText]

AppendUserMessagePair(list, g, image) ==
    list \o <<UserMessage(g, image), LoadingAnswer(g)>>

\* The list up to a question, or up to before an answer, and a new answer.
CreateRegeneratedMessages(list, i, g) ==
    SubSeq(list, 1, IF IsAnswer(list[i]) THEN i - 1 ELSE i)
        \o <<LoadingAnswer(g)>>

RemoveMessageByKey(list, k) ==
    LET kept[i \in 0..Len(list)] ==
            IF i = 0 THEN <<>>
            ELSE IF Key(list[i]) = k THEN kept[i - 1]
            ELSE Append(kept[i - 1], list[i])
    IN  kept[Len(list)]

EditMessage(list, i) ==
    [list EXCEPT ![i].text["content"] = <<EditPiece>>]

StartsWith(s, t) ==
    Len(t) <= Len(s) /\ \A i \in 1..Len(t) : Letter[s[i]] = Letter[t[i]]

\* A chunk that repeats all that came before it is taken for a snapshot.
Repeats(chunk, current) == current # <<>> /\ StartsWith(chunk, current)

MergePendingStreamChunk(current, next) ==
    IF Repeats(next, current) THEN next ELSE current \o next

\* Mutant: a snapshot is appended whole.
GetAppendableChunkWhole(current, chunk) == chunk

GetAppendableChunk(current, chunk) ==
    IF Repeats(chunk, current)
    THEN SubSeq(chunk, Len(current) + 1, Len(chunk))
    ELSE chunk

ApplyStreamingChunks(m, text) ==
    IF m.status = "error" THEN m
    ELSE [m EXCEPT !.status = "streaming",
                   !.text = [c \in Channels |->
                       m.text[c] \o GetAppendableChunk(m.text[c], text[c])]]

CompleteAssistantMessage(m) == [m EXCEPT !.status = "complete"]

ReplyText == [NoText EXCEPT !["content"] = <<1>>]

\* What an updater does to the last answer; an image leaves its text empty.
UpdateAnswer(m, u) ==
    CASE u.op = "chunks"   -> ApplyStreamingChunks(m, u.text)
      [] u.op = "complete" -> IF IsFinal(m) THEN m ELSE CompleteAssistantMessage(m)
      [] u.op = "stopped"  -> IF IsPending(m) THEN CompleteAssistantMessage(m) ELSE m
      [] u.op = "answer"   -> CompleteAssistantMessage([m EXCEPT !.text = ReplyText])
      [] u.op = "image"    -> [m EXCEPT !.status = "complete", !.image = TRUE]
      [] u.op = "error"    -> [m EXCEPT !.status = "error",
                                        !.text["content"] = <<ErrorPiece>>]

UpdateLastAssistantMessage(list, u) ==
    IF list = <<>> \/ ~IsAnswer(list[Len(list)]) THEN list
    ELSE [list EXCEPT ![Len(list)] = UpdateAnswer(list[Len(list)], u)]

\* Updaters of a generation that is no longer current leave the list alone.
ApplyMessageStateUpdate(list, u, g) ==
    CASE u.op = "set"    -> u.list
      [] u.op = "remove" -> RemoveMessageByKey(list, u.key)
      [] OTHER           -> IF u.gen = g THEN UpdateLastAssistantMessage(list, u)
                            ELSE list

ApplyAll(list, us, g) ==
    LET after[i \in 0..Len(us)] ==
            IF i = 0 THEN list
            ELSE ApplyMessageStateUpdate(after[i - 1], us[i], g)
    IN  after[Len(us)]

\* React may run the first updater of an empty queue at once, with the
\* generation of that moment, and then keeps its result.
MayRunAtOnce(us) == IF updates = <<>> /\ us # <<>> THEN BOOLEAN ELSE {FALSE}

Queued(us, atOnce, g) ==
    IF atOnce
    THEN <<[op |-> "set", list |-> ApplyMessageStateUpdate(messages, us[1], g)]>>
             \o Tail(us)
    ELSE updates \o us

\* setMessages outside a click: the render comes later. persistMessages runs
\* inside the updater.
Enqueue(us) ==
    /\ \E atOnce \in MayRunAtOnce(us) :
           /\ updates' = Queued(us, atOnce, generation)
           /\ IF atOnce THEN latest' = updates'[1].list /\ saveTimer' = TRUE
              ELSE UNCHANGED <<latest, saveTimer>>
    /\ UNCHANGED <<messages, shown>>

\* setMessages in a click, and the render that ends the click; first is the
\* generation at the time of the calls.
UpdateAndRender(us, first) ==
    \E atOnce \in MayRunAtOnce(us) :
        LET q == Queued(us, atOnce, first) IN
        /\ messages' = ApplyAll(messages, q, generation')
        /\ updates' = <<>>
        /\ shown' = (isStreaming' \/ isRequesting')
        /\ IF q = <<>> THEN UNCHANGED <<latest, saveTimer>>
           ELSE latest' = messages' /\ saveTimer' = TRUE

Render ==
    /\ mounted
    /\ \/ updates # <<>>
       \/ shown # (isStreaming \/ isRequesting)
    /\ UNCHANGED <<requestVars, flagVars, chunkVars, pageVars, saveVars,
                   historyVars, generation>>
    /\ UpdateAndRender(<<>>, generation)

-----------------------------------------------------------------------------
\* Requests.

NoChunks(g) == [gen |-> g, text |-> NoText]

Abort == aborted' = IF abortRef = None THEN aborted ELSE aborted \cup {abortRef}

\* The refs' part of starting generation g: whatever runs is stopped.
StartGeneration(g) ==
    /\ generation' = g
    /\ Abort
    /\ source' = None
    /\ pending' = NoChunks(g)
    /\ flushTimer' = None
    /\ isStreaming' = FALSE

\* sendStreamingChat and the synchronous part of the controller's send.
SendStreamingChat(g) ==
    /\ StartGeneration(g)
    /\ abortRef' = None
    /\ headers' = headers \cup {g}
    /\ UNCHANGED requests

\* sendNonStreamingChat and sendImage up to their await.
SendRequest(g) ==
    /\ StartGeneration(g)
    /\ abortRef' = g
    /\ requests' = requests \cup {g}
    /\ UNCHANGED headers

SendChat(g) ==
    /\ g <= MaxGen
    /\ isRequesting' = TRUE
    /\ \E md \in Modes :
           /\ mode' = [mode EXCEPT ![g] = md]
           /\ IF md \in {"delta", "snapshot"} THEN SendStreamingChat(g)
              ELSE SendRequest(g)
    /\ UNCHANGED <<streams, received, done, swallowed>>

\* flushStreamUpdates: the updater it queues, if any.
FlushedChunks(g) ==
    IF g = generation /\ pending.gen = g /\ pending.text # NoText
    THEN <<[op |-> "chunks", gen |-> g, text |-> pending.text]>>
    ELSE <<>>

\* Mutant: buffered chunks are dropped at the end.
EndGenerationUnflushed(g, op) ==
    /\ Enqueue(<<[op |-> op, gen |-> g]>>)
    /\ flushTimer' = None
    /\ pending' = NoChunks(g)
    /\ isRequesting' = FALSE

\* Mutant: the answer's status is not touched.
EndGenerationOpen(g, op) ==
    /\ Enqueue(FlushedChunks(g))
    /\ flushTimer' = None
    /\ pending' = NoChunks(g)
    /\ isRequesting' = FALSE

\* handleStreamComplete and handleStreamError of the current generation.
EndGeneration(g, op) ==
    /\ Enqueue(FlushedChunks(g) \o <<[op |-> op, gen |-> g]>>)
    /\ flushTimer' = None
    /\ pending' = NoChunks(g)
    /\ isRequesting' = FALSE

\* Mutant: headers that come late start their stream all the same.
HeadersReadyLate(g) ==
    /\ g \in headers
    /\ headers' = headers \ {g}
    /\ source' = g /\ streams' = streams \cup {g} /\ isStreaming' = TRUE
    /\ UNCHANGED <<requests, aborted, abortRef, isRequesting, chunkVars, pageVars,
                   listVars, saveVars, historyVars, generation>>

\* The headers came: latest wins, an older request creates no source.
HeadersReady(g) ==
    /\ g \in headers
    /\ headers' = headers \ {g}
    /\ IF g = generation
       THEN source' = g /\ streams' = streams \cup {g} /\ isStreaming' = TRUE
       ELSE UNCHANGED <<source, streams, isStreaming>>
    /\ UNCHANGED <<requests, aborted, abortRef, isRequesting, chunkVars, pageVars,
                   listVars, saveVars, historyVars, generation>>

HeadersFail(g) ==
    /\ g \in headers
    /\ headers' = headers \ {g}
    /\ IF g = generation THEN EndGeneration(g, "error")
       ELSE UNCHANGED <<listVars, chunkVars, isRequesting>>
    /\ UNCHANGED <<streams, source, requests, aborted, abortRef, isStreaming,
                   pageVars, saveVars, historyVars, generation>>

\* Events of a source that is not current are dropped (a stuttering step).
IsCurrent(g) == generation = g /\ source = g

\* The list the next render will show, and the text of its last answer.
View == ApplyAll(messages, updates, generation)

LastText(list, c) ==
    IF list # <<>> /\ IsAnswer(list[Len(list)]) THEN list[Len(list)].text[c] ELSE <<>>

\* A message with the next pieces of one channel, or with all of it so far.
StreamMessage(g, c) ==
    /\ g \in streams
    /\ IsCurrent(g)
    /\ \E k \in 1..MaxPieces :
        LET n == received[g][c] + k
            chunk == IF mode[g] = "delta" THEN [i \in 1..k |-> received[g][c] + i]
                     ELSE [i \in 1..n |-> i]
            merged == MergePendingStreamChunk(pending.text[c], chunk)
        IN  /\ received[g]["content"] + received[g]["reasoning"] + k <= MaxPieces
            /\ received' = [received EXCEPT ![g][c] = n]
            /\ IF pending.gen = g
               THEN /\ pending' = [pending EXCEPT !.text[c] = merged]
                    /\ flushTimer' = g
               ELSE UNCHANGED chunkVars
            /\ swallowed' = IF mode[g] = "delta" /\ (\/ Repeats(chunk, pending.text[c])
                                                     \/ Repeats(merged, LastText(View, c)))
                            THEN swallowed \cup {g} ELSE swallowed
    /\ UNCHANGED <<requestVars, flagVars, pageVars, listVars, saveVars, mode,
                   done, cut, generation>>

\* The timer of scheduleStreamFlush.
FlushTimer ==
    /\ mounted
    /\ flushTimer # None
    /\ IF flushTimer = generation
       THEN /\ Enqueue(FlushedChunks(flushTimer))
            /\ flushTimer' = None
            /\ pending' = IF pending.gen = flushTimer THEN NoChunks(pending.gen)
                          ELSE pending
       ELSE UNCHANGED <<listVars, chunkVars>>
    /\ UNCHANGED <<requestVars, flagVars, pageVars, saveVars, historyVars, generation>>

\* closeActiveSource.
CloseActiveSource(g) ==
    /\ source' = None
    /\ isStreaming' = FALSE

\* [DONE].
StreamDone(g) ==
    /\ g \in streams
    /\ IsCurrent(g)
    /\ CloseActiveSource(g)
    /\ EndGeneration(g, "complete")
    /\ done' = done \cup {g}
    /\ UNCHANGED <<headers, streams, requests, aborted, abortRef, pageVars,
                   saveVars, mode, received, cut, swallowed, generation>>

\* An error event, an unreadable message, a closed connection with another
\* status than 200, or a stream() that throws.
StreamError(g) ==
    /\ g \in streams
    /\ IsCurrent(g)
    /\ CloseActiveSource(g)
    /\ EndGeneration(g, "error")
    /\ UNCHANGED <<headers, streams, requests, aborted, abortRef, pageVars,
                   saveVars, historyVars, generation>>

\* The connection closes with status 200 and no [DONE]: no handler acts on it.
StreamSilentlyCloses(g) ==
    /\ g \in streams
    /\ IsCurrent(g)
    /\ streams' = streams \ {g}
    /\ UNCHANGED <<headers, source, requests, aborted, abortRef, flagVars, chunkVars,
                   pageVars, listVars, saveVars, historyVars, generation>>

\* A continuation after sendChatCompletion or sendImageGeneration acts only for
\* the current, unaborted request.
ReplyCounts(g) == g \notin aborted /\ generation = g

ReplyArrives(g) ==
    /\ g \in requests
    /\ requests' = requests \ {g}
    /\ IF ReplyCounts(g)
       THEN /\ Enqueue(<<[op |-> IF mode[g] = "image" THEN "image" ELSE "answer",
                           gen |-> g]>>)
            /\ abortRef' = None
            /\ isRequesting' = FALSE
            /\ done' = done \cup {g}
            /\ received' = IF mode[g] = "image" THEN received
                           ELSE [received EXCEPT ![g]["content"] = 1]
       ELSE UNCHANGED <<listVars, abortRef, isRequesting, done, received>>
    /\ UNCHANGED <<headers, streams, source, aborted, isStreaming, chunkVars,
                   pageVars, saveVars, mode, cut, swallowed, generation>>

\* The request failed, or its reply holds no choice or no image.
ReplyFails(g) ==
    /\ g \in requests
    /\ requests' = requests \ {g}
    /\ IF ReplyCounts(g)
       THEN EndGeneration(g, "error") /\ abortRef' = None
       ELSE UNCHANGED <<listVars, chunkVars, isRequesting, abortRef>>
    /\ UNCHANGED <<headers, streams, source, aborted, isStreaming, pageVars,
                   saveVars, historyVars, generation>>

-----------------------------------------------------------------------------
\* The user's clicks: each reads the messages of the last render.

SetTo(list) == <<[op |-> "set", list |-> list]>>

UserMayAct == mounted /\ ~clearOpen

\* A prompt of the empty page, which generation does not disable.
SendMessage ==
    /\ UserMayAct
    /\ messages = <<>>
    /\ SendChat(generation + 1)
    /\ UpdateAndRender(SetTo(AppendUserMessagePair(messages, generation + 1, FALSE)), generation)
    /\ UNCHANGED <<pageVars, saveVars, cut>>

\* PromptInput's handleSubmit up to its await: the continuation keeps the list
\* of this render. The input is disabled only once it has run and rendered.
FreeIds == {n \in 1..MaxSubmits : \A q \in converting : q.id # n}

\* Mutant: the input stays enabled while an answer is generated.
HandleSubmitAlways ==
    /\ UserMayAct
    /\ \E n \in FreeIds, image \in BOOLEAN :
           /\ \A k \in FreeIds : n <= k
           /\ converting' = converting \cup {[id |-> n, list |-> messages, image |-> image]}
    /\ UNCHANGED <<requestVars, flagVars, chunkVars, editing, clearOpen, mounted,
                   listVars, saveVars, historyVars, generation>>

HandleSubmit ==
    /\ UserMayAct
    /\ ~shown
    /\ \E n \in FreeIds, image \in BOOLEAN :
           /\ \A k \in FreeIds : n <= k
           /\ converting' = converting \cup {[id |-> n, list |-> messages, image |-> image]}
    /\ UNCHANGED <<requestVars, flagVars, chunkVars, editing, clearOpen, mounted,
                   listVars, saveVars, historyVars, generation>>

\* Its files are read and the module it imports is there: handleSendMessage.
SubmitContinues ==
    /\ mounted
    /\ \E q \in converting :
           /\ SendChat(generation + 1)
           /\ Enqueue(SetTo(AppendUserMessagePair(q.list, generation + 1, q.image)))
           /\ converting' = converting \ {q}
    /\ UNCHANGED <<editing, clearOpen, mounted, saveVars, cut>>

\* A file cannot be read, the import fails, or the files are too large.
SubmitFails ==
    /\ \E q \in converting : converting' = converting \ {q}
    /\ UNCHANGED <<requestVars, flagVars, chunkVars, editing, clearOpen, mounted,
                   listVars, saveVars, historyVars, generation>>

RegenerateMessage(i) ==
    /\ UserMayAct
    /\ ~shown
    /\ HasContent(messages[i])
    /\ ~IsPending(messages[i])
    /\ SendChat(generation + 1)
    /\ UpdateAndRender(SetTo(CreateRegeneratedMessages(messages, i, generation + 1)), generation)
    /\ UNCHANGED <<pageVars, saveVars, cut>>

\* Mutant: messages can be deleted while an answer is generated.
DeleteMessageAlways(i) ==
    /\ UserMayAct
    /\ UNCHANGED <<requestVars, flagVars, chunkVars, pageVars, saveVars,
                   historyVars, generation>>
    /\ UpdateAndRender(<<[op |-> "remove", key |-> Key(messages[i])]>>, generation)

DeleteMessage(i) ==
    /\ UserMayAct
    /\ ~shown
    /\ UNCHANGED <<requestVars, flagVars, chunkVars, pageVars, saveVars,
                   historyVars, generation>>
    /\ UpdateAndRender(<<[op |-> "remove", key |-> Key(messages[i])]>>, generation)

\* Mutant: a second editor opens beside the first.
OpenEditorBeside(i) ==
    /\ UserMayAct
    /\ ~shown
    /\ HasContent(messages[i])
    /\ editing' = editing \cup {Key(messages[i])}
    /\ UNCHANGED <<requestVars, flagVars, chunkVars, converting, clearOpen, mounted,
                   listVars, saveVars, historyVars, generation>>

OpenEditor(i) ==
    /\ UserMayAct
    /\ ~shown
    /\ HasContent(messages[i])
    /\ editing' = {Key(messages[i])}
    /\ UNCHANGED <<requestVars, flagVars, chunkVars, converting, clearOpen, mounted,
                   listVars, saveVars, historyVars, generation>>

CloseEditor ==
    /\ UserMayAct
    /\ editing # {}
    /\ editing' = {}
    /\ UNCHANGED <<requestVars, flagVars, chunkVars, converting, clearOpen, mounted,
                   listVars, saveVars, historyVars, generation>>

\* A queue that a click's own list or generation makes void: what the current
\* request still sends goes to the answer that is now the last.
CutQueue ==
    cut' = IF updates = <<>> THEN cut
           ELSE cut \cup {generation} \cup
                {messages[i].gen : i \in {j \in 1..Len(messages) : j = Len(messages)}}

\* Saving an edit is possible while an answer is generated.
ApplyEdit(i) ==
    /\ UserMayAct
    /\ Key(messages[i]) \in editing
    /\ editing' = {}
    /\ UNCHANGED <<requestVars, flagVars, chunkVars, converting, clearOpen, mounted,
                   saveVars, mode, received, done, swallowed, generation>>
    /\ UpdateAndRender(SetTo(EditMessage(messages, i)), generation)
    /\ CutQueue

ApplyEditAndSubmit(i) ==
    /\ UserMayAct
    /\ Key(messages[i]) \in editing
    /\ ~IsAnswer(messages[i])
    /\ editing' = {}
    /\ SendChat(generation + 1)
    /\ UpdateAndRender(
           SetTo(CreateRegeneratedMessages(EditMessage(messages, i), i, generation + 1)),
           generation)
    /\ UNCHANGED <<converting, clearOpen, mounted, saveVars, cut>>

OpenClearDialog ==
    /\ UserMayAct
    /\ ~shown
    /\ messages # <<>>
    /\ clearOpen' = TRUE
    /\ UNCHANGED <<requestVars, flagVars, chunkVars, editing, converting, mounted,
                   listVars, saveVars, historyVars, generation>>

CloseClearDialog ==
    /\ mounted
    /\ clearOpen
    /\ clearOpen' = FALSE
    /\ UNCHANGED <<requestVars, flagVars, chunkVars, editing, converting, mounted,
                   listVars, saveVars, historyVars, generation>>

\* Clearing does not stop an answer that began behind the dialog.
ClearMessages ==
    /\ mounted
    /\ clearOpen
    /\ clearOpen' = FALSE
    /\ editing' = {}
    /\ UNCHANGED <<requestVars, flagVars, chunkVars, converting, mounted, saveVars,
                   historyVars, generation>>
    /\ UpdateAndRender(SetTo(<<>>), generation)

\* The chunks are flushed under the old generation, which the next line ends.
StopGeneration ==
    LET flushed == FlushedChunks(generation) IN
    /\ UserMayAct
    /\ shown
    /\ generation < MaxGen
    /\ StartGeneration(generation + 1)
    /\ abortRef' = None
    /\ isRequesting' = FALSE
    /\ UpdateAndRender(flushed \o <<[op |-> "stopped", gen |-> generation + 1]>>,
                       IF flushed = <<>> THEN generation + 1 ELSE generation)
    /\ CutQueue
    /\ UNCHANGED <<headers, streams, requests, pageVars, saveVars, mode, received,
                   done, swallowed>>

-----------------------------------------------------------------------------
\* Saving and loading.

TrimMessages(list) ==
    SubSeq(list, IF Len(list) > MaxStored THEN Len(list) - MaxStored + 1 ELSE 1, Len(list))

\* Attachments are not written.
Serializable(m) == [m EXCEPT !.image = FALSE]

Saved(list) ==
    LET kept == TrimMessages(list) IN [i \in 1..Len(kept) |-> Serializable(kept[i])]

\* localStorage may refuse, which is only logged.
SaveMessages(list) ==
    \/ stored' = Saved(list) /\ saveFailed' = FALSE
    \/ saveFailed' = TRUE /\ UNCHANGED stored

\* A submit goes on after its page was left. Its request is seen by nobody; of
\* its updaters React may run the first one, whose persistMessages saves.
LateSubmit ==
    /\ \E list \in orphans :
           /\ stored' = Saved(list)
           /\ orphans' = {l \in orphans : l[Len(l)].gen # list[Len(list)].gen}
    /\ saveFailed' = TRUE
    /\ UNCHANGED <<requestVars, flagVars, chunkVars, pageVars, listVars, historyVars,
                   generation>>

SaveTimerFires ==
    /\ mounted
    /\ saveTimer
    /\ saveTimer' = FALSE
    /\ SaveMessages(latest)
    /\ UNCHANGED <<requestVars, flagVars, chunkVars, pageVars, messages, updates,
                   shown, latest, orphans, historyVars, generation>>

\* An answer that had begun is kept as it is.
NormalizeStoredMessageForLoad(m) ==
    IF IsPending(m) /\ m.text # NoText THEN CompleteAssistantMessage(m) ELSE m

\* The last answer that is still pending has nothing to show.
SanitizeMessagesOnLoad(list) ==
    LET stuck == {i \in 1..Len(list) : IsPending(list[i])}
        target == CHOOSE i \in stuck : \A j \in stuck : j <= i
    IN  IF stuck = {} THEN list
        ELSE [list EXCEPT ![target].status = "error",
                          ![target].text["content"] = <<ErrorPiece>>]

Loaded(list) ==
    SanitizeMessagesOnLoad(TrimMessages(
        [i \in 1..Len(list) |-> NormalizeStoredMessageForLoad(list[i])]))

\* The saved copy of an answer need not be all that was shown.
OlderInStorage(m) == IsPending(m) \/ mode[m.gen] = "image"

\* A new instance of the page: fresh state, the list read from storage.
LoadPage ==
    /\ mounted' = TRUE
    /\ messages' = Loaded(stored)
    /\ latest' = Loaded(stored)
    /\ IF Loaded(stored) = stored THEN UNCHANGED <<stored, saveFailed>>
       ELSE SaveMessages(Loaded(stored))
    /\ updates' = <<>>
    /\ saveTimer' = FALSE
    /\ isStreaming' = FALSE
    /\ isRequesting' = FALSE
    /\ shown' = FALSE
    /\ pending' = NoChunks(generation)
    /\ flushTimer' = None
    /\ editing' = {}
    /\ converting' = {}
    /\ clearOpen' = FALSE
    /\ done' = {g \in done : \A i \in 1..Len(stored) :
                                 stored[i].gen = g => ~OlderInStorage(stored[i])}
    /\ UNCHANGED <<mode, received, cut, swallowed, generation>>

Mount == ~mounted /\ LoadPage /\ UNCHANGED <<requestVars, orphans>>

\* The tab is reloaded or dies: no cleanup runs.
Reload ==
    /\ mounted
    /\ LoadPage
    /\ headers' = {}
    /\ streams' = {}
    /\ source' = None
    /\ requests' = {}
    /\ aborted' = {}
    /\ abortRef' = None
    /\ orphans' = {}

\* Mutant: the timer is cleared and nothing saved.
SaveOnLeaveForgotten == UNCHANGED <<stored, saveFailed>>

\* The cleanup of use-playground-state.
SaveOnLeave ==
    IF saveTimer THEN SaveMessages(latest) ELSE UNCHANGED <<stored, saveFailed>>

\* Leaving the page: the cleanups of the three hooks. Nothing ends the submits
\* under way; the first of them can still save its list.
Unmount ==
    /\ mounted
    /\ generation < MaxGen
    /\ mounted' = FALSE
    /\ StartGeneration(generation + 1)
    /\ abortRef' = None
    /\ isRequesting' = FALSE
    /\ shown' = FALSE
    /\ updates' = <<>>
    /\ saveTimer' = FALSE
    /\ SaveOnLeave
    /\ editing' = {}
    /\ converting' = {}
    /\ orphans' = orphans \cup
           {AppendUserMessagePair(q.list, generation + 1, q.image) : q \in converting}
    /\ clearOpen' = FALSE
    /\ UNCHANGED <<headers, streams, requests, messages, latest, historyVars>>

-----------------------------------------------------------------------------
Init ==
    /\ messages = <<>> /\ updates = <<>> /\ latest = <<>> /\ stored = <<>>
    /\ generation = 0
    /\ headers = {} /\ streams = {} /\ source = None
    /\ requests = {} /\ aborted = {} /\ abortRef = None
    /\ isStreaming = FALSE /\ isRequesting = FALSE /\ shown = FALSE
    /\ pending = NoChunks(0) /\ flushTimer = None
    /\ editing = {} /\ converting = {} /\ clearOpen = FALSE /\ mounted = TRUE
    /\ saveTimer = FALSE /\ saveFailed = FALSE /\ orphans = {} /\ acts = 0
    /\ mode = [g \in Gens |-> "none"]
    /\ received = [g \in Gens |-> [c \in Channels |-> 0]]
    /\ done = {} /\ cut = {} /\ swallowed = {}

StreamStep(g) ==
    \/ HeadersReady(g) \/ HeadersFail(g)
    \/ \E c \in Channels : StreamMessage(g, c)
    \/ StreamDone(g) \/ StreamError(g) \/ StreamSilentlyCloses(g)

ReplyStep(g) == ReplyArrives(g) \/ ReplyFails(g)

PageStep ==
    \/ Render \/ FlushTimer
    \/ SubmitContinues \/ SubmitFails \/ LateSubmit
    \/ SendMessage \/ StopGeneration

MessageStep(i) ==
    \/ RegenerateMessage(i) \/ DeleteMessage(i) \/ OpenEditor(i)
    \/ ApplyEdit(i) \/ ApplyEditAndSubmit(i)

UserStep ==
    \/ \E i \in 1..Len(messages) : MessageStep(i)
    \/ HandleSubmit \/ CloseEditor
    \/ OpenClearDialog \/ CloseClearDialog \/ ClearMessages
    \/ Mount \/ Reload \/ Unmount \/ SaveTimerFires

Counted == acts < MaxActs /\ acts' = acts + 1 /\ UserStep

Uncounted ==
    /\ UNCHANGED acts
    /\ \/ PageStep
       \/ \E g \in Gens : StreamStep(g) \/ ReplyStep(g)

Next == Counted \/ Uncounted

Spec == Init /\ [][Next]_vars

-----------------------------------------------------------------------------
Pieces == EditPiece..MaxPieces + 1
Texts == [Channels -> Seq(Pieces)]
Messages ==
    [from : {"user", "assistant"}, gen : Gens,
     status : {"sent", "loading", "streaming", "complete", "error"},
     image : BOOLEAN, text : Texts]
Keys == [from : {"user", "assistant"}, gen : Gens]
Updates ==
    [op : {"set"}, list : Seq(Messages)]
    \cup [op : {"remove"}, key : Keys]
    \cup [op : {"chunks"}, gen : Gens, text : Texts]
    \cup [op : {"answer", "image", "complete", "stopped", "error"}, gen : Gens]

\* Types of the page's state.
TypeOK ==
    /\ messages \in Seq(Messages) /\ latest \in Seq(Messages) /\ stored \in Seq(Messages)
    /\ updates \in Seq(Updates)
    /\ generation \in 0..MaxGen
    /\ headers \subseteq Gens /\ streams \subseteq Gens /\ source \in Gens \cup {None}
    /\ requests \subseteq Gens /\ aborted \subseteq Gens /\ abortRef \in Gens \cup {None}
    /\ isStreaming \in BOOLEAN /\ isRequesting \in BOOLEAN /\ shown \in BOOLEAN
    /\ pending \in [gen : 0..MaxGen, text : Texts]
    /\ flushTimer \in Gens \cup {None}
    /\ editing \subseteq Keys /\ Cardinality(editing) <= 1
    /\ converting \subseteq [id : 1..MaxSubmits, list : Seq(Messages), image : BOOLEAN]
    /\ orphans \subseteq Seq(Messages)
    /\ clearOpen \in BOOLEAN /\ mounted \in BOOLEAN
    /\ saveTimer \in BOOLEAN /\ saveFailed \in BOOLEAN
    /\ mode \in [Gens -> Modes \cup {"none"}]
    /\ received \in [Gens -> [Channels -> 0..MaxPieces + 1]]
    /\ acts \in 0..MaxActs
    /\ done \subseteq Gens /\ cut \subseteq Gens /\ swallowed \subseteq Gens

\* The first pieces up to the n-th, each in its place.
InOrder(text, n) == Len(text) <= n /\ \A i \in 1..Len(text) : text[i] = i

\* Some of the first n pieces, in their order.
Ascending(text, n) ==
    /\ \A i \in 1..Len(text) : text[i] \in 1..n
    /\ \A i, j \in 1..Len(text) : i < j => text[i] < text[j]

Unedited(m) ==
    /\ ~Edited(m)
    /\ m.status # "error"

Shows(m) ==
    /\ \A c \in Channels : Ascending(m.text[c], received[m.gen][c])
    /\ m.gen \notin swallowed =>
           \A c \in Channels : InOrder(m.text[c], received[m.gen][c])
    /\ m.status = "complete" /\ m.gen \in done /\ m.gen \notin swallowed =>
           \A c \in Channels : Len(m.text[c]) = received[m.gen][c]
    /\ m.status = "complete" /\ m.gen \in done => (m.image <=> mode[m.gen] = "image")

\* An answer shows what its own request received, on its channel: no piece
\* twice, none out of order, none of another answer, however messages, flushes
\* and renders interleave; every piece of a snapshot stream, and of a delta
\* stream unless a delta began with all the buffered text or the buffer with
\* all the shown text (swallowed); and all of it, text or image, once it is
\* complete. The exception is a queue a click wrote over (cut).
AnswerFaithful ==
    \A i \in 1..Len(messages) :
        LET m == messages[i] IN
        IsAnswer(m) /\ Unedited(m) /\ m.gen \notin cut => Shows(m)

\* The request of generation g can still be stopped.
Stoppable(g) == g = generation /\ g \in headers \cup requests \cup {source}

\* After a render at most the last answer is pending, it belongs to the current
\* generation and its request can still be stopped. So no request is left
\* without an answer to fill in, and no answer spins once its request has ended
\* or was stopped, replaced or left, unless a click wrote over its end (cut).
\* While the request is open it may spin for ever: no timeout is set.
PendingIsLast ==
    mounted /\ updates = <<>> =>
        \A i \in 1..Len(messages) :
            IsPending(messages[i]) /\ messages[i].gen \notin cut
            => i = Len(messages) /\ Stoppable(messages[i].gen)

\* The page says it is generating exactly while the current generation waits
\* for headers or a reply or has a source: the Stop button is there when
\* something can be stopped, and the input comes back when the handlers are
\* done. (A stream that closed without a word keeps its source until Stop.)
BusyMeansWork == mounted => (isStreaming \/ isRequesting <=> Stoppable(generation))

\* Whenever no save is scheduled, localStorage holds the conversation as last
\* rendered, on the page and after leaving it, unless it refused the write or
\* a submit of a page left before has written since.
ConversationSaved ==
    /\ ~saveTimer /\ ~saveFailed => stored = Saved(latest)
    /\ mounted /\ updates = <<>> => latest = messages

\* A finished answer never changes again, whatever arrives late and whichever
\* render a handler read: only an edit, or undoing one, and a new page do
\* (or the end of a request whose own answer a click wrote over).
FinalStaysFinal ==
    [][Mount \/ Reload \/
       \A i \in 1..Len(messages), j \in 1..Len(messages') :
           /\ IsAnswer(messages[i]) /\ IsFinal(messages[i])
           /\ messages[i].gen \notin cut
           /\ Key(messages[i]) = Key(messages'[j])
           => \/ messages'[j] = messages[i]
              \/ Edited(messages[i]) \/ Edited(messages'[j])]_vars
=============================================================================
