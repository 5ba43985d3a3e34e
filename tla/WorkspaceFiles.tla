--------------------------- MODULE WorkspaceFiles ---------------------------
(***************************************************************************)
(* Reading and changing the files of one open workspace:                   *)
(* src/modules/ide-codewriter, the tools of mcp/tools/read-tools.js and    *)
(* write-tools.js with what they share, the read ledger of mcp/session.js, *)
(* the guards, the index, the content cache and the baseline checkpoint.   *)
(*                                                                         *)
(* The files belong to the desktop, where the user edits them meanwhile.   *)
(* The backend has an index of their revisions, which trails behind, and   *)
(* lets a client replace or delete a file only at a revision its ledger    *)
(* says the client was shown.                                              *)
(*                                                                         *)
(* A revision is the hash of a text and stands for the text here.  An      *)
(* event of the desktop is delivered with the state the file has then: how *)
(* far the index trails is the delay of the delivery.                      *)
(***************************************************************************)
EXTENDS AgentRequests, Naturals, FiniteSets

CONSTANTS
    Paths,
    Texts,          \* what a file may contain
    NoText,         \* a file that does not exist
    Initially,      \* the file that exists at first
    Ignore,         \* the .gitignore of the project
    Edited,         \* bound: the files the user changes meanwhile
    Clients,        \* an OAuth client of the user: each has one ledger
    Calls,          \* bound: the calls of tools, numbered as they begin
    Offered,        \* bound: Offered[k], the kinds of tool that call k may be of
    MaxEdits        \* bound: how often the user changes a file, or the files are
                    \* indexed anew

\* The requests of a call to the desktop.
Steps == {"plan", "baseline", "fetch", "main"}

ASSUME FilesAssumption ==
    /\ Clients # {} /\ Texts # {}
    /\ NoText \notin Texts
    /\ {Initially, Ignore} \cup Edited \subseteq Paths
    /\ Calls \subseteq Nat
    /\ \A k \in Calls, s \in Steps : <<k, s>> \in Requests
    /\ MaxEdits \in Nat

VARIABLES
    live,       \* live[p]: the file as the desktop has it
    edits,      \* how much of MaxEdits is used
    index,      \* index[p]: the entry of the workspace's index
    indexed,    \* indexComplete
    cached,     \* cached[p]: the revisions of p in the content cache
    baseline,   \* workspace.baselineCheckpoint
    ledger,     \* ledger[c][p]: the revision of p that client c was shown
    call,       \* call[k]: the call of a tool
    told        \* history: <<c, p, t>> when t of p counted as read by client c

fileVars == <<live, edits, index, indexed, cached, baseline, ledger, call, told>>
filesVars == <<fileVars, rpc>>

-----------------------------------------------------------------------------
Kinds == {"read", "range", "resource", "write", "edit", "gitignore", "delete", "move"}
Stages == {"idle", "plan", "baseline", "fetch", "main", "done", "failed"}

File == [text : Texts \cup {NoText}, unsaved : BOOLEAN]
NoFile == [text |-> NoText, unsaved |-> FALSE]
Entry == [revision : Texts \cup {NoText}, dirty : BOOLEAN]
NoEntry == [revision |-> NoText, dirty |-> FALSE]

\* quoted[p] is the revision the client quoted for p, NoText where it creates p or
\* p is not part of the call; base[p] the revision of the entry the call holds on
\* to; linked the paths whose entry is still the object that is in the index;
\* asked the paths whose content the desktop was asked for.
Call ==
    [kind : Kinds, stage : Stages, by : Clients, paths : SUBSET Paths,
     quoted : [Paths -> Texts \cup {NoText}], base : [Paths -> Texts \cup {NoText}],
     linked : SUBSET Paths, asked : SUBSET Paths, text : Texts \cup {NoText}, to : Paths,
     result : [Paths -> File], applied : SUBSET Paths]

NoCall ==
    [kind |-> "read", stage |-> "idle", by |-> CHOOSE c \in Clients : TRUE, paths |-> {},
     quoted |-> [p \in Paths |-> NoText], base |-> [p \in Paths |-> NoText],
     linked |-> {}, asked |-> {}, text |-> CHOOSE t \in Texts : TRUE, to |-> Initially,
     result |-> [p \in Paths |-> NoFile], applied |-> {}]

FilesTypeOK ==
    /\ live \in [Paths -> File]
    /\ edits \in 0..MaxEdits
    /\ index \in [Paths -> Entry]
    /\ indexed \in BOOLEAN
    /\ cached \in [Paths -> SUBSET Texts]
    /\ baseline \in {"none", "pending", "made", "failed"}
    /\ ledger \in [Clients -> [Paths -> Texts \cup {NoText}]]
    /\ call \in [Calls -> Call]
    /\ told \subseteq Clients \X Paths \X Texts

EntryOf(file) == [revision |-> file.text, dirty |-> file.unsaved]

FilesInit ==
    /\ live = [p \in Paths |->
                  IF p = Initially THEN [text |-> NoCall.text, unsaved |-> FALSE] ELSE NoFile]
    /\ edits = 0
    /\ index = [p \in Paths |-> EntryOf(live[p])]
    /\ indexed = TRUE
    /\ cached = [p \in Paths |-> {}]
    /\ baseline = "none"
    /\ ledger = [c \in Clients |-> [p \in Paths |-> NoText]]
    /\ call = [k \in Calls |-> NoCall]
    /\ told = {}

-----------------------------------------------------------------------------
(* Entries and the ledger. *)

Exists(p) == index[p].revision # NoText

ReadKinds == {"read", "range", "resource"}

\* resolveWorkspace waits for the index.  A tool that writes pings the desktop after
\* that, and by the time it validates, the project may be indexed anew.
MayBegin(k, kind) ==
    /\ kind \in ReadKinds => indexed
    /\ kind \in Offered[k]
    /\ call[k].stage = "idle"
    /\ \A j \in Calls : j < k => call[j].stage # "idle"

\* Bound: what happens after the last call is over is left out.
Busy == \E k \in Calls : call[k].stage \notin {"done", "failed"}

\* applyChange puts a new entry object into the index, so that no call holds the
\* one that is there any longer.
Unlinked(calls, ps) == [k \in Calls |-> [calls[k] EXCEPT !.linked = @ \ ps]]

Done(calls, k) == [calls EXCEPT ![k] = [NoCall EXCEPT !.stage = "done"]]

\* Of a call that failed only what the desktop may still do is of interest.
GivenUp(calls, k, done) ==
    [calls EXCEPT ![k] = [(IF done THEN NoCall ELSE @) EXCEPT !.stage = "failed"]]

\* noteRead, notePartialRead, noteWrite and noteDelete: notes[p] is the revision
\* the ledger has for p from now on, NoText where it forgets p.
Noted(c, notes) ==
    ledger' = [ledger EXCEPT ![c] =
                  [p \in Paths |-> IF p \in DOMAIN notes THEN notes[p] ELSE @[p]]]

Told(c, p, text) == told' = told \cup {<<c, p, text>>}

\* hasFreshRead, for a file in the index.
FreshRead(c, p) == ledger[c][p] = index[p].revision

-----------------------------------------------------------------------------
(* fetchFiles.  What the cache has for the indexed revision of a clean file  *)
(* is taken from there, everything else is asked of the desktop.             *)

\* ContentCache.get, by the revision of the index.
Hit(p) == index[p].revision \in cached[p]

InCache(p) == Exists(p) /\ ~index[p].dirty /\ Hit(p)

Misses(ps) == {p \in ps : ~InCache(p)}

\* The desktop reads the editor's buffer, or the file where there is none.
DesktopReads(k) ==
    /\ rpc[<<k, "fetch">>] = Asked
    /\ rpc' = [rpc EXCEPT ![<<k, "fetch">>] = Performed(@)]
    /\ call' = [call EXCEPT ![k].result =
                   [p \in Paths |-> IF p \in call[k].asked THEN live[p] ELSE NoFile]]
    /\ UNCHANGED <<live, edits, index, indexed, cached, baseline, ledger, told>>

\* Mutant of Cacheable: what is not there is cached too.
CacheableMissing(k) == {p \in call[k].asked : ~call[k].result[p].unsaved}

\* Only what is saved is cached.
Cacheable(k) ==
    {p \in call[k].asked : call[k].result[p].text # NoText /\ ~call[k].result[p].unsaved}

\* The entries the desktop has at another revision than the index.
Behind(k) ==
    {p \in call[k].asked :
        Exists(p) /\ call[k].result[p].text \notin {NoText, index[p].revision}}

\* They are changed in place: whoever holds such an entry finds it changed.
Refreshed(k) ==
    [p \in Paths |-> IF p \in Behind(k) THEN EntryOf(call[k].result[p]) ELSE index[p]]

Rebased(k) ==
    [j \in Calls |->
        [call[j] EXCEPT !.base =
            [p \in Paths |->
                IF p \in Behind(k) \cap call[j].linked THEN call[k].result[p].text ELSE @[p]]]]

CachedAfter(k) ==
    [p \in Paths |->
        IF p \in Cacheable(k) THEN cached[p] \cup {call[k].result[p].text} ELSE cached[p]]

\* dropFile: no revision of these files is kept.
WithoutFiles(ps) == [p \in Paths |-> IF p \in ps THEN {} ELSE cached[p]]

\* The least recently used content makes room.
Evict ==
    \E p \in Paths, t \in Texts :
        /\ t \in cached[p]
        /\ cached' = [cached EXCEPT ![p] = @ \ {t}]
        /\ UNCHANGED <<live, edits, index, indexed, baseline, ledger, call, told, rpc>>

-----------------------------------------------------------------------------
(* The tools that read. *)

\* Mutant of Shown: a part of a file is noted like the whole.
ShownPartNoted(kind, c, p, text) ==
    \/ kind = "read" /\ Noted(c, [q \in {p} |-> text]) /\ Told(c, p, text)
    \/ kind = "range" /\ Noted(c, [q \in {p} |-> text]) /\ UNCHANGED told
    \/ kind = "resource" /\ UNCHANGED <<ledger, told>>

\* read_files of a whole file shows it to the client, of a part of it does not,
\* and neither does a resource read, which the user's interface makes.
Shown(kind, c, p, text) ==
    \/ kind = "read" /\ Noted(c, [q \in {p} |-> text]) /\ Told(c, p, text)
    \/ kind = "range" /\ Noted(c, [q \in {p} |-> NoText]) /\ UNCHANGED told
    \/ kind = "resource" /\ UNCHANGED <<ledger, told>>

BeginRead(k) ==
    /\ \E c \in Clients, p \in Paths, kind \in ReadKinds :
       /\ MayBegin(k, kind)
       /\ IF InCache(p)
          THEN /\ Shown(kind, c, p, index[p].revision)
               /\ call' = [call EXCEPT ![k].stage = "done"]
               /\ UNCHANGED rpc
          ELSE /\ call' = [call EXCEPT ![k] =
                     [NoCall EXCEPT !.kind = kind, !.stage = "fetch", !.by = c,
                                    !.paths = {p}, !.asked = {p}]]
               /\ rpc' = [rpc EXCEPT ![<<k, "fetch">>] = Asked]
               /\ UNCHANGED <<ledger, told>>
    /\ UNCHANGED <<live, edits, index, indexed, cached, baseline>>

FinishRead(k) ==
    /\ call[k].kind \in ReadKinds
    /\ call[k].stage = "fetch"
    /\ Answerable(rpc[<<k, "fetch">>])
    /\ rpc' = [rpc EXCEPT ![<<k, "fetch">>] = Answered(@)]
    /\ index' = Refreshed(k)
    /\ cached' = CachedAfter(k)
    /\ \E p \in call[k].paths :
          IF call[k].result[p].text = NoText
          THEN UNCHANGED <<ledger, told>>
          ELSE Shown(call[k].kind, call[k].by, p, call[k].result[p].text)
    /\ call' = Done(Rebased(k), k)
    /\ UNCHANGED <<live, edits, indexed, baseline>>

-----------------------------------------------------------------------------
(* The tools that write, up to the request that does the work. *)

Updates(o) == {p \in o.paths : o.quoted[p] # NoText}

\* validateWrite: the client creates p, or the revision it quotes is the index's and
\* its ledger says that it saw that revision whole.
Overwritable(c, p) == Exists(p) => FreshRead(c, p)

\* validateDelete.
Deletable(c, p) == Exists(p) /\ FreshRead(c, p)

\* The operation that call k is about, once it is validated.
Operation(kind, c, ps, text, to) ==
    LET quoted == [p \in Paths |-> IF p \in ps THEN index[p].revision ELSE NoText]
    IN  [NoCall EXCEPT !.kind = kind, !.by = c, !.paths = ps, !.quoted = quoted,
                       !.base = quoted, !.linked = {p \in ps : Exists(p)},
                       !.text = text, !.to = to]

\* write_files checks its revisions again once it has the old contents.
Stale(o) == \E p \in Updates(o) : Exists(p) /\ index[p].revision # o.base[p]

\* The content before a write is fetched, for the summary of what changed.
Unfetched(o) == IF o.kind = "write" THEN Misses(Updates(o)) ELSE {}

\* Call k goes on with operation o; settled is rpc after what it waited for.
Proceed(k, o, settled) ==
    IF Unfetched(o) # {}
    THEN /\ call' = [call EXCEPT ![k] =
                        [o EXCEPT !.stage = "fetch", !.asked = Unfetched(o)]]
         /\ rpc' = [settled EXCEPT ![<<k, "fetch">>] = Asked]
    ELSE IF o.kind = "write" /\ Stale(o)
    THEN call' = GivenUp(call, k, TRUE) /\ rpc' = settled
    ELSE /\ call' = [call EXCEPT ![k] = [o EXCEPT !.stage = "main"]]
         /\ rpc' = [settled EXCEPT ![<<k, "main">>] = Asked]

\* Mutant of Checkpointed: the workspace is claimed when the checkpoint is made.
CheckpointedLate(k, o, settled) ==
    IF baseline \in {"none", "pending"}
    THEN /\ UNCHANGED baseline
         /\ call' = [call EXCEPT ![k] = [o EXCEPT !.stage = "baseline"]]
         /\ rpc' = [settled EXCEPT ![<<k, "baseline">>] = Asked]
    ELSE UNCHANGED baseline /\ Proceed(k, o, settled)

\* checkpointBeforeChanges: the first call to come here claims the workspace, the
\* others do not wait for it.
Checkpointed(k, o, settled) ==
    IF baseline = "none"
    THEN /\ baseline' = "pending"
         /\ call' = [call EXCEPT ![k] = [o EXCEPT !.stage = "baseline"]]
         /\ rpc' = [settled EXCEPT ![<<k, "baseline">>] = Asked]
    ELSE UNCHANGED baseline /\ Proceed(k, o, settled)

BeginWrite(k) ==
    /\ MayBegin(k, "write")
    /\ \E c \in Clients, ps \in SUBSET Paths \ {{}}, t \in Texts :
          /\ \A p \in ps : Overwritable(c, p)
          /\ Checkpointed(k, Operation("write", c, ps, t, Initially), rpc)
    /\ UNCHANGED <<live, edits, index, indexed, cached, ledger, told>>

BeginEdit(k) ==
    /\ MayBegin(k, "edit")
    /\ \E c \in Clients, p \in Paths :
          /\ Exists(p)
          /\ Checkpointed(k, Operation("edit", c, {p}, NoCall.text, Initially), rpc)
    /\ UNCHANGED <<live, edits, index, indexed, cached, ledger, told>>

\* ensure_gitignore asks for a plan first.
BeginGitignore(k) ==
    /\ MayBegin(k, "gitignore")
    /\ \E c \in Clients :
          call' = [call EXCEPT ![k] =
              [Operation("gitignore", c, {Ignore}, NoCall.text, Initially)
                   EXCEPT !.stage = "plan"]]
    /\ rpc' = [rpc EXCEPT ![<<k, "plan">>] = Asked]
    /\ UNCHANGED <<live, edits, index, indexed, cached, baseline, ledger, told>>

\* It applies the rules the plan found missing, if it was asked to.
PlanGitignore(k) ==
    /\ call[k].stage = "plan"
    /\ Answerable(rpc[<<k, "plan">>])
    /\ LET settled == [rpc EXCEPT ![<<k, "plan">>] = Answered(@)]
       IN  \/ Checkpointed(k, call[k], settled)
           \/ call' = Done(call, k) /\ rpc' = settled /\ UNCHANGED baseline
    /\ UNCHANGED <<live, edits, index, indexed, cached, ledger, told>>

BeginDelete(k) ==
    /\ MayBegin(k, "delete")
    /\ \E c \in Clients, ps \in SUBSET Paths \ {{}} :
          /\ \A p \in ps : Deletable(c, p)
          /\ Proceed(k, Operation("delete", c, ps, NoCall.text, Initially), rpc)
    /\ UNCHANGED <<live, edits, index, indexed, cached, baseline, ledger, told>>

\* The client quotes the revision of the file it moves; the ledger is not asked.
BeginMove(k) ==
    /\ MayBegin(k, "move")
    /\ \E c \in Clients, from \in Paths, to \in Paths :
          /\ Exists(from) /\ ~Exists(to)
          /\ Proceed(k, Operation("move", c, {from}, NoCall.text, to), rpc)
    /\ UNCHANGED <<live, edits, index, indexed, cached, baseline, ledger, told>>

\* A checkpoint that failed is stepped over.
FinishCheckpoint(k) ==
    /\ call[k].stage = "baseline"
    /\ \/ /\ Answerable(rpc[<<k, "baseline">>])
          /\ baseline' = "made"
          /\ Proceed(k, call[k], [rpc EXCEPT ![<<k, "baseline">>] = Answered(@)])
       \/ /\ baseline' = "failed"
          /\ Proceed(k, call[k], [rpc EXCEPT ![<<k, "baseline">>] = Failed(@)])
    /\ UNCHANGED <<live, edits, index, indexed, cached, ledger, told>>

\* The fetch may have changed the very entries the check compares with: it holds for
\* those by itself, and the request quotes what they say now.
FinishFetch(k) ==
    /\ call[k].kind = "write"
    /\ call[k].stage = "fetch"
    /\ Answerable(rpc[<<k, "fetch">>])
    /\ index' = Refreshed(k)
    /\ cached' = CachedAfter(k)
    /\ LET now == Rebased(k)
           stale == \E p \in Updates(now[k]) :
                       Exists(p) /\ Refreshed(k)[p].revision # now[k].base[p]
           settled == [rpc EXCEPT ![<<k, "fetch">>] = Answered(@)]
       IN  IF stale
           THEN call' = GivenUp(now, k, TRUE) /\ rpc' = settled
           ELSE /\ call' = [now EXCEPT ![k].stage = "main"]
                /\ rpc' = [settled EXCEPT ![<<k, "main">>] = Asked]
    /\ UNCHANGED <<live, edits, indexed, baseline, ledger, told>>

-----------------------------------------------------------------------------
(* What the desktop does with a request.  It may refuse any part of it. *)

DesktopPrepares(k, step) ==
    /\ rpc[<<k, step>>] = Asked
    /\ rpc' = [rpc EXCEPT ![<<k, step>>] = Performed(@)]
    /\ UNCHANGED fileVars

\* A write replaces the text it names as its base and creates only what is not there.
Writable(o) == {p \in o.paths : live[p].text = o.base[p]}

\* What edits make of a file only the desktop knows.
Outcomes(o) ==
    CASE o.kind = "write" -> [ps : SUBSET Writable(o), text : {o.text}]
      [] o.kind = "edit" ->
           [ps : SUBSET {p \in o.paths : live[p].text # NoText}, text : Texts]
      [] o.kind = "gitignore" -> [ps : SUBSET o.paths, text : Texts]
      [] o.kind = "delete" -> [ps : SUBSET o.paths, text : {NoText}]

DesktopWrites(k) ==
    /\ rpc[<<k, "main">>].work = "sent"
    /\ call[k].kind # "move"
    /\ rpc' = [rpc EXCEPT ![<<k, "main">>] = Performed(@)]
    /\ \E done \in Outcomes(call[k]) :
          /\ live' = [p \in Paths |->
                         IF p \in done.ps THEN [text |-> done.text, unsaved |-> FALSE]
                         ELSE live[p]]
          /\ call' = IF call[k].stage = "failed"
                     THEN GivenUp(call, k, TRUE)
                     ELSE [call EXCEPT ![k].applied = done.ps,
                                       ![k].text = IF done.ps = {} THEN NoCall.text
                                                   ELSE done.text]
    /\ UNCHANGED <<edits, index, indexed, cached, baseline, ledger, told>>

DesktopMoves(k) ==
    /\ rpc[<<k, "main">>].work = "sent"
    /\ call[k].kind = "move"
    /\ \E p \in call[k].paths :
          /\ live[p].text # NoText
          /\ live[call[k].to].text = NoText
          /\ live' = [live EXCEPT ![call[k].to] = live[p], ![p] = NoFile]
          /\ call' = IF call[k].stage = "failed"
                     THEN GivenUp(call, k, TRUE)
                     ELSE [call EXCEPT ![k].text = live[p].text]
    /\ rpc' = [rpc EXCEPT ![<<k, "main">>] = Performed(@)]
    /\ UNCHANGED <<edits, index, indexed, cached, baseline, ledger, told>>

-----------------------------------------------------------------------------
(* What the backend makes of the answer. *)

\* applyChange and noteWrite for what was applied; contents is the cache from now on.
Applied(k, contents) ==
    /\ call[k].stage = "main"
    /\ Answerable(rpc[<<k, "main">>])
    /\ rpc' = [rpc EXCEPT ![<<k, "main">>] = Answered(@)]
    /\ cached' = contents
    /\ LET o == call[k]
           entry == [revision |-> o.text, dirty |-> FALSE]
       IN  /\ index' = [p \in Paths |-> IF p \in o.applied THEN entry ELSE index[p]]
           /\ Noted(o.by, [p \in o.applied |-> o.text])
           /\ told' = told \cup {<<o.by, p, o.text>> : p \in o.applied}
           /\ call' = Done(Unlinked(call, o.applied), k)
    /\ UNCHANGED <<live, edits, indexed, baseline>>

\* write_files knows the new text.
FinishWrite(k) ==
    /\ call[k].kind = "write"
    /\ Applied(k, [p \in Paths |->
                      IF p \in call[k].applied THEN cached[p] \cup {call[k].text}
                      ELSE cached[p]])

\* The others know the new revision only.
FinishEdit(k) == call[k].kind = "edit" /\ Applied(k, WithoutFiles(call[k].applied))

FinishGitignore(k) ==
    call[k].kind = "gitignore" /\ Applied(k, WithoutFiles(call[k].applied))

FinishDelete(k) ==
    /\ call[k].kind = "delete"
    /\ call[k].stage = "main"
    /\ Answerable(rpc[<<k, "main">>])
    /\ rpc' = [rpc EXCEPT ![<<k, "main">>] = Answered(@)]
    /\ LET o == call[k]
       IN  /\ index' = [p \in Paths |-> IF p \in o.applied THEN NoEntry ELSE index[p]]
           /\ cached' = WithoutFiles(o.applied)
           /\ Noted(o.by, [p \in o.applied |-> NoText])
           /\ call' = Done(Unlinked(call, o.applied), k)
    /\ UNCHANGED <<live, edits, indexed, baseline, told>>

\* The entry is moved as it is; the ledger has the revision the desktop answered.
FinishMove(k) ==
    /\ call[k].kind = "move"
    /\ call[k].stage = "main"
    /\ Answerable(rpc[<<k, "main">>])
    /\ rpc' = [rpc EXCEPT ![<<k, "main">>] = Answered(@)]
    /\ \E p \in call[k].paths :
       LET o == call[k]
       IN  /\ index' = IF Exists(p)
                       THEN [index EXCEPT ![o.to] = index[p], ![p] = NoEntry]
                       ELSE index
           /\ cached' = WithoutFiles({p})
           /\ Noted(o.by, [q \in {p, o.to} |-> IF q = p THEN NoText ELSE o.text])
           /\ Told(o.by, o.to, o.text)
           /\ call' = Done(Unlinked(call, {p, o.to}), k)
    /\ UNCHANGED <<live, edits, indexed, baseline>>

\* Nobody knows then what the desktop did or will do.
FailCall(k) ==
    /\ call[k].stage \in {"plan", "fetch", "main"}
    /\ rpc' = [rpc EXCEPT ![<<k, call[k].stage>>] = Failed(@)]
    /\ call' = GivenUp(call, k, call[k].stage # "main" \/ rpc[<<k, "main">>].work = "done")
    /\ UNCHANGED <<live, edits, index, indexed, cached, baseline, ledger, told>>

-----------------------------------------------------------------------------
(* The user and the events of the desktop. *)

\* A file is edited, saved, created or removed.
UserChanges ==
    /\ edits < MaxEdits
    /\ edits' = edits + 1
    /\ \E p \in Edited, file \in File :
          /\ file # live[p]
          /\ file.unsaved => NoText \notin {file.text, live[p].text}
          /\ live' = [live EXCEPT ![p] = file]
    /\ UNCHANGED <<index, indexed, cached, baseline, ledger, call, told, rpc>>

\* The watcher of the desktop sees what is saved.
FileChanged ==
    \E p \in Paths :
        /\ ~live[p].unsaved
        /\ index[p] # EntryOf(live[p])
        /\ index' = [index EXCEPT ![p] = EntryOf(live[p])]
        /\ cached' = IF live[p].text = NoText THEN WithoutFiles({p}) ELSE cached
        /\ call' = Unlinked(call, {p})
        /\ UNCHANGED <<live, edits, indexed, baseline, ledger, told, rpc>>

\* Every entry is marked in place.
EditorState ==
    /\ index' = [p \in Paths |->
                    IF Exists(p) THEN [index[p] EXCEPT !.dirty = live[p].unsaved] ELSE index[p]]
    /\ index' # index
    /\ UNCHANGED <<live, edits, indexed, cached, baseline, ledger, call, told, rpc>>

\* A manifest that starts anew; opening the project again drops its contents as well.
ResetIndex ==
    /\ indexed
    /\ edits < MaxEdits
    /\ edits' = edits + 1
    /\ indexed' = FALSE
    /\ index' = [p \in Paths |-> NoEntry]
    /\ cached' \in {cached, [p \in Paths |-> {}]}
    /\ call' = Unlinked(call, Paths)
    /\ UNCHANGED <<live, baseline, ledger, told, rpc>>

\* The rest of the manifest, and its end; a chunk before it brings files in as
\* FileChanged does.
CompleteIndex ==
    /\ ~indexed
    /\ indexed' = TRUE
    /\ index' = [p \in Paths |-> EntryOf(live[p])]
    /\ call' = Unlinked(call, Paths)
    /\ UNCHANGED <<live, edits, cached, baseline, ledger, told, rpc>>

\* A ledger nobody used for six hours.
SweepLedger ==
    \E c \in Clients :
        /\ Noted(c, [p \in Paths |-> NoText])
        /\ ledger' # ledger
        /\ UNCHANGED <<live, edits, index, indexed, cached, baseline, call, told, rpc>>

-----------------------------------------------------------------------------
FilesNext ==
    \/ \E k \in Calls :
          \/ BeginRead(k) \/ FinishRead(k)
          \/ BeginWrite(k) \/ BeginEdit(k) \/ BeginGitignore(k) \/ PlanGitignore(k)
          \/ BeginDelete(k) \/ BeginMove(k) \/ FinishCheckpoint(k) \/ FinishFetch(k)
          \/ DesktopReads(k) \/ DesktopWrites(k) \/ DesktopMoves(k)
          \/ \E step \in {"plan", "baseline"} : DesktopPrepares(k, step)
          \/ FinishWrite(k) \/ FinishEdit(k) \/ FinishGitignore(k)
          \/ FinishDelete(k) \/ FinishMove(k) \/ FailCall(k)
    \/ /\ Busy
       /\ \/ Evict \/ UserChanges \/ FileChanged \/ EditorState
          \/ ResetIndex \/ CompleteIndex \/ SweepLedger

FilesSpec == RpcInit /\ FilesInit /\ [][FilesNext]_filesVars

-----------------------------------------------------------------------------
(* Properties. *)

\* The desktop replaces p for call k of write_files.
Replaces(k, p) ==
    /\ rpc[<<k, "main">>].work = "sent"
    /\ rpc'[<<k, "main">>].work = "done"
    /\ call[k].kind = "write"
    /\ p \in Updates(call[k])
    /\ live'[p] # live[p]

\* write_files never replaces what its client was not shown, as long as the request
\* quotes the revision the client quoted: however long the request takes, whatever
\* the user, other calls and the index did since, the text that is replaced was read
\* whole by this client, or is what a change of its own made of the file.
UnseenIsKept ==
    [][\A k \in Calls, p \in Paths :
          Replaces(k, p) /\ call[k].base[p] = call[k].quoted[p]
              => <<call[k].by, p, live[p].text>> \in told]_filesVars

\* One call of a project makes the safety checkpoint, however many start at once, and
\* that call changes nothing before its checkpoint is made or given up.
OneBaseline ==
    LET Asks(k) == rpc[<<k, "baseline">>] # Unasked
    IN  /\ \A j, k \in Calls : Asks(j) /\ Asks(k) => j = k
        /\ \A k \in Calls :
              rpc[<<k, "baseline">>].waiter = "waiting" => rpc[<<k, "main">>] = Unasked

\* What write_files replaces is what its client named as its base (session.js:20-22,
\* write-tools.js:271-273).  Not so: the entry the call compares with is the one the
\* fetch has just brought up to date.
QuotedIsReplaced ==
    [][\A k \in Calls, p \in Paths :
          Replaces(k, p) => live[p].text = call[k].quoted[p]]_filesVars
=============================================================================
