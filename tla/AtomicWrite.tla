----------------------------- MODULE AtomicWrite -----------------------------
(***************************************************************************)
(* atomic_write on one path: the check of the immutable name, the temporary*)
(* file beside the target, the validator, the replace with its retries and *)
(* the copy to blob storage.  Several threads may write the same path, any *)
(* call of the file system may fail, the process may die between any two   *)
(* steps, and a later process writes the same path again.                  *)
(*                                                                         *)
(* The temporary name depends on the path alone, so it is shared.  Files   *)
(* are nodes with a content; a name refers to a node and an open handle    *)
(* keeps referring to its node after the node was renamed.                 *)
(*                                                                         *)
(* A definition Next does not use, such as OpenInPlace, is the plausible   *)
(* mistake in the definition that follows it; the properties refute it.    *)
(***************************************************************************)
EXTENDS Naturals, FiniteSetsExt

CONSTANTS
    Writers,        \* the threads
    Contents,       \* the documents that may be written
    Valid,          \* those the schema validator accepts
    Texts,          \* those passed as a string, whose name nobody checks
    NameOf, NoName, \* the input_name of each document, or that it has none
    Part,           \* the mark of a node that holds a part of a document
    Immutable,      \* the path is one of IMMUTABLE_FILENAMES
    MaxWrites, MaxCrashes, MaxFaults    \* bounds

MaxAttempts == 4
Nodes == 1..(Cardinality(Writers) + 2)
NoNode == 0

ASSUME AtomicWriteAssumption ==
    /\ IsFiniteSet(Writers)
    /\ Valid \subseteq Contents /\ Texts \subseteq Contents
    /\ Part \notin Contents
    /\ DOMAIN NameOf = Contents
    /\ Immutable \in BOOLEAN
    /\ {MaxWrites, MaxCrashes, MaxFaults} \subseteq Nat

VARIABLES
    node,           \* the content of each node: a set of documents, see below
    path, tmp,      \* the nodes the two names refer to
    pc, content, handle, attempts,      \* of each thread
    blob,           \* the documents of the blob: none or one
    writes, crashes, faults,
    overlapped,     \* observation: some call began while another was running
    unread,         \* observation: some check could not read the file
    dropped         \* observation: a failure or a crash left the .tmp in place

files == <<node, path, tmp>>
threads == <<pc, content, handle, attempts>>
environment == <<writes, crashes, faults>>
observations == <<overlapped, unread, dropped>>
vars == <<files, threads, blob, environment, observations>>

(* A node holds {} when it is empty, {c} when it holds the whole document c, *)
(* {Part} when it holds a part of one, and several of these when a longer    *)
(* text was overwritten by a shorter one.                                    *)
PathContent == IF path = NoNode THEN {} ELSE node[path]

-----------------------------------------------------------------------------

Init ==
    /\ node = [n \in Nodes |-> {}]
    /\ path = NoNode /\ tmp = NoNode
    /\ pc = [w \in Writers |-> "idle"]
    /\ content = [w \in Writers |-> {}]
    /\ handle = [w \in Writers |-> NoNode]
    /\ attempts = [w \in Writers |-> 0]
    /\ blob = {}
    /\ writes = 0 /\ crashes = 0 /\ faults = 0
    /\ overlapped = FALSE /\ unread = FALSE /\ dropped = FALSE

GoTo(w, label) == pc' = [pc EXCEPT ![w] = label]

AFault == faults < MaxFaults /\ faults' = faults + 1

(* _check_immutability looks at the name of a dict only, and only a readable *)
(* existing name can forbid another.  What a reader makes of a mixture is    *)
(* open: it may find a name in it or none.                                   *)
NameIsChecked(c) == Immutable /\ c \notin Texts
HasName(c, old) == NameOf[old] \in {NoName, NameOf[c]}

AnyNameAllowed(c) == TRUE
NameAllowed(c) ==
    NameIsChecked(c) => \A old \in Contents : PathContent = {old} => HasName(c, old)
NameRefused(c) ==
    /\ NameIsChecked(c) /\ PathContent # {}
    /\ \A old \in Contents : PathContent = {old} => ~HasName(c, old)

(* A file that exists and cannot be read forbids nothing.  A call ends here  *)
(* when the name is refused or the directory cannot be made.                 *)
BeginWrite(w, c) ==
    /\ pc[w] = "idle"
    /\ writes < MaxWrites
    /\ writes' = writes + 1
    /\ overlapped' = (overlapped \/ \E v \in Writers : pc[v] # "idle")
    /\ \/ /\ \/ NameAllowed(c) /\ UNCHANGED <<faults, unread>>
             \/ NameIsChecked(c) /\ path # NoNode /\ AFault /\ unread' = TRUE
          /\ GoTo(w, "open")
          /\ content' = [content EXCEPT ![w] = {c}]
       \/ /\ (NameRefused(c) /\ UNCHANGED faults) \/ AFault
          /\ UNCHANGED <<pc, content, unread>>
    /\ UNCHANGED <<files, handle, attempts, blob, crashes, dropped>>

Return(w) ==
    /\ GoTo(w, "idle")
    /\ content' = [content EXCEPT ![w] = {}]
    /\ handle' = [handle EXCEPT ![w] = NoNode]
    /\ attempts' = [attempts EXCEPT ![w] = 0]

(* An exception leaves the call with the temporary file where it is.         *)
Escape(w) ==
    /\ AFault
    /\ Return(w)
    /\ dropped' = (dropped \/ tmp # NoNode)
    /\ UNCHANGED <<path, tmp, blob, writes, crashes, overlapped, unread>>

FreeNode == Min(Nodes \ ({path, tmp} \cup {handle[v] : v \in Writers}))

(* write_text opens the temporary file: it is created or emptied.            *)
OpenInPlace(w) == IF path # NoNode THEN path ELSE FreeNode
TmpNode(w) == IF tmp # NoNode THEN tmp ELSE FreeNode

OpenTmp(w) ==
    /\ pc[w] = "open"
    /\ tmp' = TmpNode(w)
    /\ handle' = [handle EXCEPT ![w] = tmp']
    /\ node' = [node EXCEPT ![tmp'] = {}]
    /\ GoTo(w, "write")
    /\ UNCHANGED <<path, content, attempts, blob, environment, observations>>

OpenFails(w) == pc[w] = "open" /\ Escape(w) /\ UNCHANGED node

(* The text goes to the beginning of whatever the handle refers to.          *)
WriteTmp(w) ==
    /\ pc[w] = "write"
    /\ \E left \in SUBSET node[handle[w]] :
          node' = [node EXCEPT ![handle[w]] = content[w] \cup left]
    /\ handle' = [handle EXCEPT ![w] = NoNode]
    /\ GoTo(w, "validate")
    /\ UNCHANGED <<path, tmp, content, attempts, blob, environment, observations>>

(* Nothing or a part of the text was written; no handler removes the file.   *)
WriteFails(w) ==
    /\ pc[w] = "write"
    /\ \E left \in SUBSET (node[handle[w]] \cup {Part}) : node' = [node EXCEPT ![handle[w]] = left]
    /\ Escape(w)

Accepted(w) == content[w] \subseteq Valid

AcceptContent(w) ==
    /\ pc[w] = "validate"
    /\ Accepted(w)
    /\ GoTo(w, "replace")
    /\ UNCHANGED <<files, content, handle, attempts, blob, environment, observations>>

LeaveTmp == UNCHANGED <<tmp, dropped>>
UnlinkTmp == tmp' = NoNode /\ dropped' = FALSE

RejectContent(w) ==
    /\ pc[w] = "validate"
    /\ ~Accepted(w)
    /\ UnlinkTmp
    /\ Return(w)
    /\ UNCHANGED <<node, path, blob, environment, overlapped, unread>>

(* The unlink of a rejected document may fail as well.                       *)
UnlinkFails(w) == pc[w] = "validate" /\ ~Accepted(w) /\ Escape(w) /\ UNCHANGED node

Replace(w) ==
    /\ pc[w] = "replace"
    /\ tmp # NoNode
    /\ path' = tmp /\ tmp' = NoNode
    /\ dropped' = FALSE
    /\ GoTo(w, "publish")
    /\ UNCHANGED <<node, content, handle, attempts, blob, environment, overlapped, unread>>

(* Another thread renamed or removed the shared temporary file: the          *)
(* FileNotFoundError leaves atomic_write.                                    *)
KeepWaiting(w) == pc[w] = "replace" /\ tmp = NoNode /\ UNCHANGED vars
TmpVanished(w) ==
    /\ pc[w] = "replace"
    /\ tmp = NoNode
    /\ Return(w)
    /\ UNCHANGED <<files, blob, environment, observations>>

(* Only PermissionError is caught: any other error of replace escapes, and   *)
(* so does one of the unlink after the last attempt.                         *)
ReplaceFails(w) == pc[w] = "replace" /\ Escape(w) /\ UNCHANGED node

(* PermissionError: three more attempts, then the write is given up.         *)
AttemptsLeft(w) == attempts[w] + 1 < MaxAttempts

ReplaceDenied(w) ==
    /\ pc[w] = "replace"
    /\ AFault
    /\ \/ /\ AttemptsLeft(w)
          /\ attempts' = [attempts EXCEPT ![w] = @ + 1]
          /\ UNCHANGED <<tmp, dropped, pc, content, handle>>
       \/ /\ ~AttemptsLeft(w)
          /\ UnlinkTmp
          /\ Return(w)
    /\ UNCHANGED <<node, path, blob, writes, crashes, overlapped, unread>>

(* _upload_to_blob and _call_sync_to_db copy the text that was written; a    *)
(* failure of either is a warning.                                           *)
UploadNothing(w) == blob
Uploaded(w) == content[w]

Publish(w) ==
    /\ pc[w] = "publish"
    /\ \/ blob' = Uploaded(w) /\ UNCHANGED faults
       \/ UNCHANGED blob /\ AFault
    /\ Return(w)
    /\ UNCHANGED <<files, writes, crashes, observations>>

(* The process dies with all its threads; names and nodes stay.              *)
Crash ==
    /\ \E w \in Writers : pc[w] # "idle"
    /\ crashes < MaxCrashes
    /\ crashes' = crashes + 1
    /\ pc' = [w \in Writers |-> "idle"]
    /\ content' = [w \in Writers |-> {}]
    /\ handle' = [w \in Writers |-> NoNode]
    /\ attempts' = [w \in Writers |-> 0]
    /\ dropped' = (dropped \/ tmp # NoNode)
    /\ UNCHANGED <<files, blob, writes, faults, overlapped, unread>>

Step(w) ==
    \/ OpenTmp(w) \/ OpenFails(w) \/ WriteTmp(w) \/ WriteFails(w)
    \/ AcceptContent(w) \/ RejectContent(w) \/ UnlinkFails(w)
    \/ Replace(w) \/ TmpVanished(w) \/ ReplaceFails(w) \/ ReplaceDenied(w)
    \/ Publish(w)

Next ==
    \/ \E w \in Writers : Step(w) \/ \E c \in Contents : BeginWrite(w, c)
    \/ Crash

Spec == Init /\ [][Next]_vars
FairSpec == Spec /\ \A w \in Writers : WF_vars(Step(w))

-----------------------------------------------------------------------------
(* Properties                                                                *)

(* Whoever reads the path finds no file or one whole document the validator  *)
(* accepted: never a part, never a mixture, whatever died in between.        *)
WholeDocuments == path # NoNode => \E c \in Valid : PathContent = {c}

(* That holds while the calls for the path do not overlap.                   *)
ReadersSeeWholeDocuments == ~overlapped => WholeDocuments

(* A write that succeeds, is rejected or gives up after the last denied      *)
(* attempt leaves no temporary file behind: one that outlives the calls was  *)
(* left by a crash or by an error of the file system that atomic_write does  *)
(* not handle, and no later call has got as far as its replace or unlink.    *)
NoTmpLeftBehind ==
    (\A w \in Writers : pc[w] = "idle") /\ tmp # NoNode => dropped

(* Between writes the blob is the file, unless calls overlapped or something *)
(* failed or died.                                                           *)
BlobFollowsFile ==
    ~overlapped /\ crashes = 0 /\ faults = 0 /\ (\A w \in Writers : pc[w] = "idle") =>
        blob = PathContent

(* The input_name of an immutable file, once readable, is neither changed    *)
(* nor dropped by a dict, whatever failed or died, unless calls overlapped   *)
(* or a check could not read the file.  A text may change it.                *)
NameIsKept ==
    [][ \A c, d \in Contents :
            ~overlapped /\ ~unread /\ NameIsChecked(d) /\ PathContent = {c} /\ PathContent' = {d} =>
                HasName(d, c) ]_vars

(* Every call returns, with or without an exception.                         *)
CallsReturn == \A w \in Writers : pc[w] # "idle" ~> pc[w] = "idle"

=============================================================================
