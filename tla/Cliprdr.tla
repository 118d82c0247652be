------------------------------ MODULE Cliprdr -------------------------------
(***************************************************************************)
(* The clipboard channel: two Cliprdr processors, the client's and the     *)
(* server's, their backends, and the static channel between them.  Either  *)
(* end copies, pastes and downloads files; a list of files is its number.  *)
(* Time is left out: whatever has a timeout may run into it.  Requests for *)
(* file contents are well formed, and what a name or a file holds is not   *)
(* modelled.                                                               *)
(***************************************************************************)
EXTENDS Naturals, Sequences, FiniteSets, Functions

CONSTANTS
  Flags,                   \* what each end's backend offers: "FILES", "LOCK"
  Copiers,                 \* the ends whose user copies
  Pasters,                 \* and pastes
  Rejecting,               \* ends of another make, which may reject a format list
  Formats,                 \* the formats pasted: "files", "drop" (effect), "text"
  MaxCopies,               \* bounds on what the users do
  MaxPastes,
  MaxRequests,
  IdSpace,                 \* the ids of locks are 1 .. IdSpace
  MAX_OUTGOING_LOCKS,
  MAX_LOCKED_FILE_LISTS,
  MAX_PENDING_FORMAT_DATA_REQUESTS,
  MAX_PENDING_FILE_REQUESTS

VARIABLES
  ends,    \* the state of each end, its backend's included
  pdus,    \* the PDUs on their way to each end
  tally    \* how much the users have done

End == {"Client", "Server"}
Peer(e) == IF e = "Client" THEN "Server" ELSE "Client"
Nothing == [x \in {} |-> 0]

(***************************************************************************)
(* Of a record of ends: local is local_file_list, remote remote_file_list, *)
(* files tells whether there is a remote_file_list_format_id, pending the  *)
(* unanswered format data requests, sent the unanswered requests for file  *)
(* contents; locks, current, next and snaps are the outgoing locks, locked *)
(* and order the peer's.  Of the backend: owes a format list, offered the  *)
(* formats it was ever told of, shown the lists with their locks it may    *)
(* download, asked and serving the requests it has to answer, answers how  *)
(* often each of its own was answered.                                     *)
(***************************************************************************)
Start(e) ==
  [state |-> "Initialization", caps |-> Flags[e], local |-> 0, remote |-> 0, files |-> FALSE,
   pending |-> <<>>, sent |-> {}, locks |-> Nothing, current |-> 0, next |-> 1, snaps |-> Nothing,
   locked |-> Nothing, order |-> <<>>,
   owes |-> FALSE, offered |-> {}, shown |-> {}, asked |-> <<>>, serving |-> {}, answers |-> Nothing]

\* The server's channel has been started.
Init ==
  /\ ends = [e \in End |-> Start(e)]
  /\ pdus = [e \in End |-> IF e = "Client"
                           THEN <<[t |-> "Capabilities", flags |-> Flags["Server"]], [t |-> "MonitorReady"]>>
                           ELSE <<>>]
  /\ tally = [copies |-> 0, pastes |-> 0, requests |-> 0]

Becomes(e, new) == ends' = [ends EXCEPT ![e] = new]
Sends(e, messages) == pdus' = [pdus EXCEPT ![Peer(e)] = @ \o messages]
Reads(e, t) == pdus[e] # <<>> /\ Head(pdus[e]).t = t
Takes(e, answers) == pdus' = [pdus EXCEPT ![e] = Tail(@), ![Peer(e)] = @ \o answers]

\* The backend is given a response to each of these requests of its own.
Answered(answers, streams) ==
  [s \in DOMAIN answers |-> IF s \in streams THEN answers[s] + 1 ELSE answers[s]]

-----------------------------------------------------------------------------
(* Initialization and copies *)

HandleCapabilities(e) ==
  /\ Reads(e, "Capabilities")
  /\ Becomes(e, [ends[e] EXCEPT !.caps = @ \cap Head(pdus[e]).flags])
  /\ Takes(e, <<>>)
  /\ UNCHANGED tally

\* The backend is asked for its formats and will copy when it has them.
HandleMonitorReady(e) ==
  /\ Reads(e, "MonitorReady")
  /\ Becomes(e, [ends[e] EXCEPT !.owes = TRUE])
  /\ Takes(e, <<>>)
  /\ UNCHANGED tally

UserCopies(e) == e \in Copiers /\ tally.copies < MaxCopies

\* A copy of anything but files; a client's first brings its capabilities along.
InitiateCopy(e) ==
  /\ ends[e].owes \/ UserCopies(e)
  /\ Becomes(e, [ends[e] EXCEPT !.local = 0, !.owes = FALSE])
  /\ Sends(e, (IF e = "Client" /\ ends[e].state = "Initialization"
               THEN <<[t |-> "Capabilities", flags |-> ends[e].caps]>> ELSE <<>>)
              \o <<[t |-> "FormatList", list |-> 0]>>)
  /\ tally' = IF ends[e].owes THEN tally ELSE [tally EXCEPT !.copies = @ + 1]

Unlocks(ids) == SelectSeq([id \in 1 .. IdSpace |-> [t |-> "Unlock", id |-> id]], LAMBDA m : m.id \in ids)

\* Mutant: the locks are dropped and the peer is not told.
InitiateFileCopyKeepsPeersLocks(e) ==
  /\ UserCopies(e)
  /\ ends[e].state = "Ready" /\ "FILES" \in ends[e].caps
  /\ LET list == tally.copies + 1
     IN  /\ Becomes(e, [ends[e] EXCEPT !.local = list, !.locks = Nothing, !.current = 0, !.snaps = Nothing])
         /\ Sends(e, <<[t |-> "FormatList", list |-> list]>>)
  /\ tally' = [tally EXCEPT !.copies = @ + 1]

\* The user's files take the clipboard over: what was locked for downloads is released first.
InitiateFileCopy(e) ==
  /\ UserCopies(e)
  /\ ends[e].state = "Ready" /\ "FILES" \in ends[e].caps
  /\ LET list == tally.copies + 1
     IN  /\ Becomes(e, [ends[e] EXCEPT !.local = list, !.locks = Nothing, !.current = 0,
                          !.snaps = IF ends[e].locks = Nothing THEN @ ELSE Nothing])
         /\ Sends(e, Unlocks(DOMAIN ends[e].locks) \o <<[t |-> "FormatList", list |-> list]>>)
  /\ tally' = [tally EXCEPT !.copies = @ + 1]

\* Any locks held are no longer those of the current clipboard.
ExpireAllLocks(s) == [s EXCEPT !.locks = [id \in DOMAIN @ |-> "Expired"], !.current = 0]

\* The first id from next on that no lock uses.
GenerateClipDataId(s) ==
  LET id(k) == ((s.next + k - 1) % IdSpace) + 1
      k == CHOOSE k \in 0 .. Cardinality(DOMAIN s.locks) :
             id(k) \notin DOMAIN s.locks /\ \A j \in 0 .. k - 1 : id(j) \in DOMAIN s.locks
  IN  id(k)

\* The lock that protects the files of a new format list.
SendLock(s) ==
  IF s.state = "Ready" /\ "LOCK" \in s.caps /\ Cardinality(DOMAIN s.locks) < MAX_OUTGOING_LOCKS
  THEN LET id == GenerateClipDataId(s)
       IN  [s EXCEPT !.current = id, !.next = (id % IdSpace) + 1,
                     !.locks = [i \in DOMAIN @ \cup {id} |-> IF i = id THEN "Active" ELSE @[i]]]
  ELSE s

\* The server is ready with the first list.  A list of files is locked at once.
HandleFormatList(e) ==
  /\ Reads(e, "FormatList")
  /\ LET list == Head(pdus[e]).list
         ready == [ends[e] EXCEPT !.state = IF e = "Server" THEN "Ready" ELSE @]
         changed == [ExpireAllLocks(ready) EXCEPT !.remote = 0, !.files = list # 0,
                       !.offered = @ \cup (IF list # 0 THEN {"files", "drop"} ELSE {"text"})]
         new == IF list # 0 THEN SendLock(changed) ELSE changed
     IN  /\ Becomes(e, new)
         /\ Takes(e, <<[t |-> "FormatListResponse", ok |-> TRUE]>>
                     \o (IF new.current # 0 THEN <<[t |-> "Lock", id |-> new.current]>> ELSE <<>>))
  /\ UNCHANGED tally

\* What an end of another make may do instead.
RejectFormatList(e) ==
  /\ e \in Rejecting
  /\ Reads(e, "FormatList")
  /\ Takes(e, <<[t |-> "FormatListResponse", ok |-> FALSE]>>)
  /\ UNCHANGED <<ends, tally>>

\* Acceptance makes the client ready; a rejection also ends the downloads under way.
HandleFormatListResponse(e) ==
  /\ Reads(e, "FormatListResponse")
  /\ Becomes(e, IF Head(pdus[e]).ok
                THEN [ends[e] EXCEPT !.state = IF e = "Client" THEN "Ready" ELSE @]
                ELSE [ends[e] EXCEPT !.local = 0, !.sent = {}, !.answers = Answered(@, ends[e].sent)])
  /\ Takes(e, <<>>)
  /\ UNCHANGED tally

-----------------------------------------------------------------------------
(* Pastes *)

\* A format of the last list, or of one before it.  One request too many is failed here; whether
\* it is for the file list is decided now.
InitiatePaste(e) ==
  /\ e \in Pasters /\ tally.pastes < MaxPastes
  /\ ends[e].state = "Ready"
  /\ tally' = [tally EXCEPT !.pastes = @ + 1]
  /\ IF Len(ends[e].pending) >= MAX_PENDING_FORMAT_DATA_REQUESTS THEN UNCHANGED <<ends, pdus>>
     ELSE \E format \in Formats \cap ends[e].offered :
            /\ Becomes(e, [ends[e] EXCEPT
                 !.pending = Append(@, [n |-> tally'.pastes, is_file_list |-> format = "files" /\ ends[e].files])])
            /\ Sends(e, <<[t |-> "FormatDataRequest", format |-> format, n |-> tally'.pastes]>>)

\* The files' own formats are answered on the spot, any other goes to the backend.
HandleFormatDataRequest(e) ==
  /\ Reads(e, "FormatDataRequest")
  /\ LET m == Head(pdus[e])
     IN  IF m.format # "text" /\ ends[e].local # 0
         THEN /\ Takes(e, <<[t |-> "FormatDataResponse", n |-> m.n,
                             list |-> IF m.format = "files" THEN ends[e].local ELSE 0]>>)
              /\ UNCHANGED ends
         ELSE /\ Becomes(e, [ends[e] EXCEPT !.asked = Append(@, m.n)])
              /\ Takes(e, <<>>)
  /\ UNCHANGED tally

\* The backend answers in the order it was asked, with data or with an error.
SubmitFormatData(e) ==
  /\ ends[e].asked # <<>> /\ ends[e].state = "Ready"
  /\ Becomes(e, [ends[e] EXCEPT !.asked = Tail(@)])
  /\ Sends(e, <<[t |-> "FormatDataResponse", n |-> Head(ends[e].asked), list |-> 0]>>)
  /\ UNCHANGED tally

\* The response answers the oldest request.  A list is kept, under the lock of the day too, and shown.
HandleFormatDataResponse(e) ==
  /\ Reads(e, "FormatDataResponse")
  /\ LET s == ends[e]
         list == Head(pdus[e]).list
         taken == [s EXCEPT !.pending = Tail(@)]
         full == s.current \notin DOMAIN s.snaps /\ Cardinality(DOMAIN s.snaps) >= MAX_LOCKED_FILE_LISTS
     IN  Becomes(e, IF s.pending # <<>> /\ Head(s.pending).is_file_list /\ list # 0
                    THEN [taken EXCEPT
                           !.remote = list,
                           !.snaps = IF s.current = 0 \/ full THEN @
                                     ELSE [id \in DOMAIN @ \cup {s.current} |-> IF id = s.current THEN list ELSE @[id]],
                           !.shown = @ \cup {[list |-> list, lock |-> s.current]}]
                    ELSE IF s.pending = <<>> THEN s ELSE taken)
  /\ Takes(e, <<>>)
  /\ UNCHANGED tally

-----------------------------------------------------------------------------
(* Locks and file contents *)

HandleLock(e) ==
  /\ Reads(e, "Lock")
  /\ LET s == ends[e]
         id == Head(pdus[e]).id
         full == id \notin DOMAIN s.locked /\ Cardinality(DOMAIN s.locked) >= MAX_LOCKED_FILE_LISTS
         kept == IF full THEN Tail(s.order) ELSE SelectSeq(s.order, LAMBDA i : i # id)
     IN  Becomes(e, IF s.local = 0 THEN s
                    ELSE [s EXCEPT !.order = Append(kept, id),
                                   !.locked = [i \in Range(kept) \cup {id} |-> IF i = id THEN s.local ELSE @[i]]])
  /\ Takes(e, <<>>)
  /\ UNCHANGED tally

\* Mutant: an unlocked list keeps its place in the order of eviction.
HandleUnlockKeepsOrder(e) ==
  /\ Reads(e, "Unlock")
  /\ Becomes(e, [ends[e] EXCEPT !.locked = [i \in DOMAIN @ \ {Head(pdus[e]).id} |-> @[i]]])
  /\ Takes(e, <<>>)
  /\ UNCHANGED tally

HandleUnlock(e) ==
  /\ Reads(e, "Unlock")
  /\ LET id == Head(pdus[e]).id
     IN  Becomes(e, [ends[e] EXCEPT !.locked = [i \in DOMAIN @ \ {id} |-> @[i]],
                                    !.order = SelectSeq(@, LAMBDA i : i # id)])
  /\ Takes(e, <<>>)
  /\ UNCHANGED tally

\* How many files a list has, to tell an index that fits one list and not another.
Size(list) == 1 + (list % 2)

(***************************************************************************)
(* The backend wants a file of a list it was shown, and names its lock or  *)
(* leaves the choice to request_file_contents.  What does not fit the list *)
(* of the lock, or else the current one, is refused at once.               *)
(***************************************************************************)
RequestFileContents(e) ==
  /\ e \in Pasters /\ tally.requests < MaxRequests
  /\ tally' = [tally EXCEPT !.requests = @ + 1]
  /\ \E known \in ends[e].shown : \E named \in {known.lock, 0}, index \in 1 .. Size(known.list) :
       LET s == ends[e]
           stream == tally'.requests
           lock == IF named = 0 THEN s.current ELSE named
           list == IF lock \in DOMAIN s.snaps THEN s.snaps[lock] ELSE s.remote
           rejected == \/ s.state # "Ready" \/ "FILES" \notin s.caps
                       \/ list # 0 /\ index > Size(list)
                       \/ Cardinality(s.sent) >= MAX_PENDING_FILE_REQUESTS
       IN  /\ Becomes(e, [s EXCEPT !.sent = IF rejected THEN @ ELSE @ \cup {stream},
                                   !.answers = [i \in DOMAIN @ \cup {stream} |->
                                                  IF i # stream THEN @[i] ELSE IF rejected THEN 1 ELSE 0]])
           /\ IF rejected THEN UNCHANGED pdus
              ELSE Sends(e, <<[t |-> "FileContentsRequest", stream |-> stream, lock |-> lock, index |-> index]>>)

\* A request that names a lock is served from what was locked, or not at all.
HandleFileContentsRequest(e) ==
  /\ Reads(e, "FileContentsRequest")
  /\ LET s == ends[e]
         m == Head(pdus[e])
         list == IF m.lock = 0 THEN s.local ELSE IF m.lock \in DOMAIN s.locked THEN s.locked[m.lock] ELSE 0
     IN  IF "FILES" \notin s.caps \/ list = 0 \/ m.index > Size(list)
         THEN /\ Takes(e, <<[t |-> "FileContentsResponse", stream |-> m.stream]>>)
              /\ UNCHANGED ends
         ELSE /\ Becomes(e, [s EXCEPT !.serving = @ \cup {m.stream}])
              /\ Takes(e, <<>>)
  /\ UNCHANGED tally

SubmitFileContents(e) ==
  /\ ends[e].state = "Ready"
  /\ \E stream \in ends[e].serving :
       /\ Becomes(e, [ends[e] EXCEPT !.serving = @ \ {stream}])
       /\ Sends(e, <<[t |-> "FileContentsResponse", stream |-> stream]>>)
  /\ UNCHANGED tally

\* Mutant: a response nobody waits for any more is passed on.
HandleLateFileContentsResponse(e) ==
  /\ Reads(e, "FileContentsResponse")
  /\ LET stream == Head(pdus[e]).stream
     IN  Becomes(e, [ends[e] EXCEPT !.sent = @ \ {stream}, !.answers = Answered(@, {stream})])
  /\ Takes(e, <<>>)
  /\ UNCHANGED tally

\* A response nobody waits for any more is dropped.
HandleFileContentsResponse(e) ==
  /\ Reads(e, "FileContentsResponse")
  /\ LET stream == Head(pdus[e]).stream
     IN  Becomes(e, [ends[e] EXCEPT !.sent = @ \ {stream}, !.answers = Answered(@, ends[e].sent \cap {stream})])
  /\ Takes(e, <<>>)
  /\ UNCHANGED tally

\* Expired locks that have been idle, or there, for too long; requests that have waited too long.
DriveTimeouts(e) ==
  \E ids \in SUBSET {id \in DOMAIN ends[e].locks : ends[e].locks[id] = "Expired"},
     stale \in SUBSET ends[e].sent :
    /\ ids # {} \/ stale # {}
    /\ Becomes(e, [ends[e] EXCEPT !.locks = [i \in DOMAIN @ \ ids |-> @[i]],
                                  !.snaps = [i \in DOMAIN @ \ ids |-> @[i]],
                                  !.current = IF @ \in ids THEN 0 ELSE @,
                                  !.sent = @ \ stale, !.answers = Answered(@, stale)])
    /\ Sends(e, Unlocks(ids))
    /\ UNCHANGED tally

Next ==
  \E e \in End :
    \/ HandleCapabilities(e) \/ HandleMonitorReady(e) \/ InitiateCopy(e) \/ InitiateFileCopy(e)
    \/ HandleFormatList(e) \/ RejectFormatList(e) \/ HandleFormatListResponse(e)
    \/ InitiatePaste(e) \/ HandleFormatDataRequest(e) \/ SubmitFormatData(e) \/ HandleFormatDataResponse(e)
    \/ HandleLock(e) \/ HandleUnlock(e) \/ RequestFileContents(e) \/ HandleFileContentsRequest(e)
    \/ SubmitFileContents(e) \/ HandleFileContentsResponse(e) \/ DriveTimeouts(e)

vars == <<ends, pdus, tally>>

Spec == Init /\ [][Next]_vars

-----------------------------------------------------------------------------
(* Properties *)

\* The locks and unlocks of an id that are under way to an end.
UnderWay(e, id) == {i \in DOMAIN pdus[e] : pdus[e][i].t \in {"Lock", "Unlock"} /\ pdus[e][i].id = id}

\* Whether an end will hold a list under the id when they have arrived, unless it has none to hold.
WillHold(e, id) ==
  \/ id \in DOMAIN ends[e].locked /\ UnderWay(e, id) = {}
  \/ \E i \in UnderWay(e, id) : pdus[e][i].t = "Lock" /\ \A j \in UnderWay(e, id) : j <= i

\* An end holds no snapshot its peer has given up: each lock that expires, is
\* released for a copy or runs into a timeout is unlocked exactly then.  The
\* lists an end validates against are those of its own locks, only the lock of
\* the current clipboard is active, and the order of eviction names exactly the
\* snapshots (send_lock, release_outgoing_locks, drive_timeouts, LockData).
LocksBalanced ==
  \A e \in End :
    LET s == ends[e]
    IN  /\ \A id \in 1 .. IdSpace : WillHold(Peer(e), id) => id \in DOMAIN s.locks
        /\ DOMAIN s.snaps \subseteq DOMAIN s.locks
        /\ {id \in DOMAIN s.locks : s.locks[id] = "Active"} = {s.current} \ {0}
        /\ IsInjective(s.order) /\ Range(s.order) = DOMAIN s.locked

\* The backend gets one response to each of its requests for file contents, be
\* it refused, answered, timed out or given up with a rejected list, and a late
\* answer is not a second one (request_file_contents, drive_timeouts).
AnsweredOnce ==
  \A e \in End : \A stream \in DOMAIN ends[e].answers :
    ends[e].answers[stream] = IF stream \in ends[e].sent THEN 0 ELSE 1

\* A format data response answers the oldest of the requests that wait for one.
ResponsesPaired ==
  \A e \in End :
    Reads(e, "FormatDataResponse") =>
      ends[e].pending # <<>> /\ Head(ends[e].pending).n = Head(pdus[e]).n

=============================================================================
