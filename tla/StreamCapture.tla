---------------------------- MODULE StreamCapture ----------------------------
(***************************************************************************)
(* What a step captures besides dataset contents, and the requests it      *)
(* hands out (src/src/H5VLstream.c): attributes written inside a step,     *)
(* group attributes written outside one and folded into the next, links    *)
(* and their repetition in later steps, and the completion cell that a     *)
(* step's deferred requests share.                                         *)
(*                                                                         *)
(* One application thread. The callbacks of request_notify run inside      *)
(* end_step and may themselves operate on requests, so the resolution of a *)
(* cell is not atomic. StepCommit has the manifests, types and policies.   *)
(***************************************************************************)
EXTENDS Integers, Sequences, FiniteSets, FiniteSetsExt

CONSTANTS
    Dsets, Links,
    GroupAttrs,    \* paths of attributes of groups
    DsetAttrs,     \* paths of attributes of datasets
    Owner,         \* the dataset of each of DsetAttrs
    None,
    Reqs,          \* the requests the application asks for
    Faults,        \* a subset of FaultKinds
    MaxSteps, MaxEntries, MaxFails   \* bounds, the last on steps that fail

FaultKinds == {"dangling", \* a hard link is made to nothing
               "early",    \* a replay fails before it reaches attributes and links
               "late"}     \* ... or after some of them

ASSUME CaptureAssumption ==
    /\ Owner \in [DsetAttrs -> Dsets] /\ IsFiniteSet(Links)
    /\ None \notin [target : Dsets, type : {"h", "s"}] \cup [target : Dsets, step : Int]
    /\ Faults \subseteq FaultKinds
    /\ MaxSteps \in Nat /\ MaxEntries \in Nat /\ MaxFails \in Nat

VARIABLES
    step_state,
    physical_step,
    fails,
    pending,             \* fs->pending
    attr_handle,         \* the application's attribute handles
    live,                \* the group attributes that the live file has
    group_attrs,         \* noted for the next fold
    links,               \* fs->links: the target of each known link
    stream,              \* /step/<n>
    cells,               \* completion cells, in order of creation
    current_completion,  \* an index of cells, or 0
    notify_list,         \* the callbacks end_step has still to invoke
    outcome,             \* replay_ret of the end_step under way
    request,             \* per request: its cell and who holds it
    told,                \* history: the statuses given to its callback
    verdict,             \* history: how the step of each cell ended
    forgotten,           \* history: attributes folded into failed steps
    misnoted             \* history: links that failed steps have noted

captureVars == <<pending, attr_handle, live, group_attrs>>
requestVars == <<cells, current_completion, request>>
streamVars  == <<physical_step, fails, links, stream>>
resolveVars == <<notify_list, outcome>>
historyVars == <<told, verdict, forgotten, misnoted>>
vars == <<step_state, captureVars, requestVars, streamVars, resolveVars,
          historyVars>>

-----------------------------------------------------------------------------
Attrs == GroupAttrs \cup DsetAttrs
Steps == 0 .. MaxSteps
NoStep == -1
Entry ==
    [kind : {"create"}, path : Dsets]
    \cup [kind : {"attr"}, path : Attrs]
    \cup [kind : {"link"}, path : Links, target : Dsets, type : {"h", "s"}]

\* /step/<n>: datasets, attributes, where links and aliases lead.
Content == [made  : SUBSET Dsets,
            attr  : SUBSET Attrs,
            link  : [Links -> [target : Dsets, step : {NoStep} \cup Steps] \cup {None}],
            alias : [Dsets -> Steps \cup {NoStep}]]
Empty == [made  |-> {},
          attr  |-> {},
          link  |-> [l \in Links |-> None],
          alias |-> [d \in Dsets |-> NoStep]]

NewCell == [status |-> 0, refs |-> 1, queue |-> <<>>]
\* A request is held by the application until a call releases it; a queued
\* callback outlives that.
RequestStates == {"none", "held", "notified", "freed"}

Init ==
    /\ step_state = "NOT_IN_STEP"
    /\ physical_step = 0 /\ fails = 0
    /\ pending = <<>>
    /\ attr_handle = [a \in Attrs |-> "closed"]
    /\ live = {}
    /\ group_attrs = <<>>
    /\ links = [l \in Links |-> None]
    /\ stream = [n \in Steps |-> Empty]
    /\ cells = <<>> /\ current_completion = 0
    /\ notify_list = <<>> /\ outcome = 0
    /\ request = [q \in Reqs |-> [state |-> "none", cell |-> 0]]
    /\ told = [q \in Reqs |-> <<>>]
    /\ verdict = <<>>
    /\ forgotten = {} /\ misnoted = {}

-----------------------------------------------------------------------------
(* Deferred requests.                                                      *)

\* step_completion_decref; at zero the cell and its queue are freed.
Decref(cs, c) ==
    [cs EXCEPT ![c].refs  = @ - 1,
               ![c].queue = IF cs[c].refs = 1 THEN <<>> ELSE @]

\* mutant: the request does not count itself
MakeRequestUncounted(q) ==
    IF q = None THEN UNCHANGED <<requestVars, verdict>>
    ELSE LET fresh == current_completion = 0
             cs == IF fresh THEN Append(cells, NewCell) ELSE cells
             c  == IF fresh THEN Len(cs) ELSE current_completion
         IN  /\ cells' = cs
             /\ current_completion' = c
             /\ request' = [request EXCEPT ![q] = [state |-> "held", cell |-> c]]
             /\ verdict' = IF fresh THEN Append(verdict, 0) ELSE verdict

\* make_deferred_request: the step's cell is made by its first request.
MakeRequest(q) ==
    IF q = None THEN UNCHANGED <<requestVars, verdict>>
    ELSE LET fresh == current_completion = 0
             cs == IF fresh THEN Append(cells, NewCell) ELSE cells
             c  == IF fresh THEN Len(cs) ELSE current_completion
         IN  /\ cells' = [cs EXCEPT ![c].refs = @ + 1]
             /\ current_completion' = c
             /\ request' = [request EXCEPT ![q] = [state |-> "held", cell |-> c]]
             /\ verdict' = IF fresh THEN Append(verdict, 0) ELSE verdict
FreshReqs == {None} \cup {q \in Reqs : request[q].state = "none"}

\* Requests are used between steps, within one, from callbacks, and after the
\* file is closed.
Held(q) == step_state # "crashed" /\ request[q].state = "held"

Release(q, cs, state) ==
    /\ cells' = Decref(cs, request[q].cell)
    /\ request' = [request EXCEPT ![q].state = state]

\* mutant: the callback is queued whether or not the step has ended
RequestNotifyQueues(q) ==
    LET c == request[q].cell IN
    /\ Held(q)
    /\ Release(q, [cells EXCEPT ![c].queue = <<q>> \o @], "notified")
    /\ UNCHANGED <<step_state, captureVars, streamVars, resolveVars,
                   current_completion, historyVars>>

\* request_notify: queue the callback, or call it at once; then release.
RequestNotify(q) ==
    LET c == request[q].cell
        s == cells[c].status
    IN  /\ Held(q)
        /\ IF s = 0
           THEN /\ Release(q, [cells EXCEPT ![c].queue = <<q>> \o @], "notified")
                /\ UNCHANGED told
           ELSE /\ Release(q, cells, "notified")
                /\ told' = [told EXCEPT ![q] = Append(@, s)]
        /\ UNCHANGED <<step_state, captureVars, streamVars, resolveVars,
                       current_completion, verdict, forgotten, misnoted>>

\* request_cancel (nothing can be cancelled) and request_free.
RequestFree(q) ==
    /\ Held(q)
    /\ Release(q, cells, "freed")
    /\ UNCHANGED <<step_state, captureVars, streamVars, resolveVars,
                   current_completion, historyVars>>

-----------------------------------------------------------------------------
(* Capture.                                                                *)

BeginStep ==
    /\ step_state = "NOT_IN_STEP"
    /\ physical_step < MaxSteps
    /\ step_state' = "IN_STEP"
    /\ UNCHANGED <<captureVars, requestVars, streamVars, resolveVars, historyVars>>

AttrEntry(a) == [kind |-> "attr", path |-> a]
Has(es, kind, p) == \E i \in DOMAIN es : es[i].kind = kind /\ es[i].path = p

\* H5Dcreate or H5Dwrite: the step gets one create entry for the dataset.
DatasetWrite(d, q) ==
    /\ step_state = "IN_STEP"
    /\ q \in FreshReqs
    /\ Len(pending) < MaxEntries
    /\ pending' = IF Has(pending, "create", d) THEN pending
                  ELSE Append(pending, [kind |-> "create", path |-> d])
    /\ MakeRequest(q)
    /\ UNCHANGED <<step_state, attr_handle, live, group_attrs, streamVars,
                   resolveVars, told, forgotten, misnoted>>

\* H5Acreate inside a step: an entry without contents, owned by the handle.
\* That the step may have created the attribute before is not looked at.
AttrCreate(a) ==
    /\ step_state = "IN_STEP"
    /\ attr_handle[a] = "closed"
    /\ Len(pending) < MaxEntries
    /\ pending' = Append(pending, AttrEntry(a))
    /\ attr_handle' = [attr_handle EXCEPT ![a] = "placeholder"]
    /\ UNCHANGED <<step_state, live, group_attrs, requestVars, streamVars,
                   resolveVars, historyVars>>

\* H5Acreate outside a step goes to the live file; of a group's attribute
\* the path is noted.
NoteGroupAttr(a) ==
    IF \E i \in DOMAIN group_attrs : group_attrs[i] = a THEN group_attrs
    ELSE Append(group_attrs, a)
AttrCreateLive(a) ==
    /\ step_state = "NOT_IN_STEP"
    /\ a \notin live
    /\ live' = live \cup {a}
    /\ group_attrs' = NoteGroupAttr(a)
    /\ UNCHANGED <<step_state, pending, attr_handle, requestVars, streamVars,
                   resolveVars, historyVars>>

\* H5Adelete goes to the live file, inside a step too.
AttrDelete(a) ==
    /\ step_state \in {"NOT_IN_STEP", "IN_STEP"}
    /\ a \in live
    /\ live' = live \ {a}
    /\ UNCHANGED <<step_state, pending, attr_handle, group_attrs, requestVars,
                   streamVars, resolveVars, historyVars>>

\* step_attr_index: the entry of the attribute in the open step, appended
\* when a live attribute is rewritten for the first time in it. Contents are
\* replaced in place, and are not modelled.
WithAttr(a) ==
    IF Has(pending, "attr", a) THEN pending ELSE Append(pending, AttrEntry(a))

\* H5Awrite through the handle of an H5Acreate inside a step. Any other
\* handle has no path, and its writes pass through.
AttrWrite(a, q) ==
    /\ step_state = "IN_STEP"
    /\ \/ attr_handle[a] = "live"
       \/ attr_handle[a] = "placeholder" /\ Has(pending, "attr", a)
    /\ q \in FreshReqs
    /\ Len(pending) < MaxEntries
    /\ pending' = WithAttr(a)
    /\ MakeRequest(q)
    /\ UNCHANGED <<step_state, attr_handle, live, group_attrs, streamVars,
                   resolveVars, told, forgotten, misnoted>>

\* ... through one whose step failed, or was discarded: its pending_index is
\* used all the same. The entry that is there now gets the contents, or
\* there is none and what the process reads is not the list's.
AttrWriteStale(a, q) ==
    /\ step_state = "IN_STEP"
    /\ attr_handle[a] = "placeholder" /\ ~Has(pending, "attr", a)
    /\ q \in FreshReqs
    /\ \/ pending # <<>> /\ MakeRequest(q) /\ UNCHANGED step_state
       \/ step_state' = "crashed" /\ UNCHANGED <<requestVars, verdict>>
    /\ UNCHANGED <<captureVars, streamVars, resolveVars, told, forgotten, misnoted>>

AttrClose(a) ==
    /\ step_state \in {"NOT_IN_STEP", "IN_STEP"}
    /\ attr_handle[a] # "closed"
    /\ attr_handle' = [attr_handle EXCEPT ![a] = "closed"]
    /\ UNCHANGED <<step_state, pending, live, group_attrs, requestVars,
                   streamVars, resolveVars, historyVars>>

\* H5Lcreate_hard and H5Lcreate_soft inside a step. Whether the target of a
\* hard link exists is not looked at.
LinkCreate(l, d, t) ==
    /\ step_state = "IN_STEP"
    /\ \/ t = "s" \/ "dangling" \in Faults
       \/ Has(pending, "create", d) \/ \E n \in Steps : d \in stream[n].made
    /\ Len(pending) < MaxEntries
    /\ pending' = Append(pending, [kind |-> "link", path |-> l,
                                   target |-> d, type |-> t])
    /\ UNCHANGED <<step_state, attr_handle, live, group_attrs, requestVars,
                   streamVars, resolveVars, historyVars>>

-----------------------------------------------------------------------------
(* end_step.                                                               *)

\* The i-th of a set of positions, and the elements of a set in some order.
Nth(S, i) == CHOOSE x \in S : Cardinality({y \in S : y <= x}) = i
Listing(S) == CHOOSE f \in [1 .. Cardinality(S) -> S] : \A x \in S : \E i \in DOMAIN f : f[i] = x

\* mutant: any attribute of the step is taken for the noted one
WantedStops(es) ==
    {i \in DOMAIN group_attrs : /\ group_attrs[i] \in live
                                /\ \A b \in Attrs : ~Has(es, "attr", b)}

\* The noted attributes, as they are now; one that was deleted
\* or that the step wrote itself is left out.
Wanted(es) ==
    {i \in DOMAIN group_attrs : /\ group_attrs[i] \in live
                                /\ ~Has(es, "attr", group_attrs[i])}
FoldGroupAttrs(es) ==
    es \o [i \in 1 .. Cardinality(Wanted(es)) |-> AttrEntry(group_attrs[Nth(Wanted(es), i)])]

\* A known link whose target this step writes is linked again.
Again(es) == {l \in Links : /\ links[l] # None
                            /\ Has(es, "create", links[l].target)
                            /\ ~Has(es, "link", l)}
LinkEntry(l) == [kind |-> "link", path |-> l, target |-> links[l].target,
                 type |-> links[l].type]
FoldLinks(es) ==
    es \o [i \in 1 .. Cardinality(Again(es)) |-> LinkEntry(Listing(Again(es))[i])]

\* path_index_resolve: the newest step up to n that wrote d.
Resolve(s, d, n) ==
    LET at == {k \in 0 .. n : d \in s[k].made}
    IN  IF at = {} THEN NoStep ELSE Max(at)

\* mutant: one pass in captured order, so a link sees earlier creates only
SeenOnePass(es, i) ==
    {es[j].path : j \in {k \in 1 .. i : es[k].kind = "create"}}
\* Attributes and links are replayed in a second pass, after every create.
Seen(es, i) ==
    {es[j].path : j \in {k \in DOMAIN es : es[k].kind = "create"}}

\* replay_link: where entry i of es leads, NoStep for the path itself.
LinkStep(es, i, n) ==
    IF es[i].target \in Seen(es, i) THEN n ELSE Resolve(stream, es[i].target, n - 1)
\* A hard link needs an object; the second of one name in a step fails. All
\* of it is best effort.
LinkMade(es, i, n) ==
    /\ es[i].kind = "link"
    /\ es[i].type = "s" \/ LinkStep(es, i, n) # NoStep
    /\ \A j \in 1 .. i - 1 :
         ~(/\ es[j].kind = "link" /\ es[j].path = es[i].path
           /\ es[j].type = "s" \/ LinkStep(es, j, n) # NoStep)
MadeBy(es, l, n, k) == {i \in 1 .. k : LinkMade(es, i, n) /\ es[i].path = l}

\* links_note, for the links that the first k entries made.
LinksNoted(es, n, k) ==
    [l \in Links |-> IF MadeBy(es, l, n, k) = {} THEN links[l]
                     ELSE LET e == es[Min(MadeBy(es, l, n, k))]
                          IN  [target |-> e.target, type |-> e.type]]

\* An attribute of a dataset that the step did not write is put on an alias
\* of its last copy.
Aliased(es, d, n) ==
    /\ ~Has(es, "create", d)
    /\ \E a \in DsetAttrs : Owner[a] = d /\ Has(es, "attr", a)

Replayed(es, n) ==
    [made  |-> {d \in Dsets : Has(es, "create", d)},
     attr  |-> {a \in Attrs : Has(es, "attr", a)},
     link  |-> [l \in Links |->
                  IF MadeBy(es, l, n, Len(es)) = {} THEN None
                  ELSE LET i == Min(MadeBy(es, l, n, Len(es)))
                       IN  [target |-> es[i].target, step |-> LinkStep(es, i, n)]],
     alias |-> [d \in Dsets |-> IF Aliased(es, d, n)
                                THEN Resolve(stream, d, n - 1) ELSE NoStep]]

Folded == FoldLinks(FoldGroupAttrs(pending))

\* The second attribute entry of one path fails the replay.
Repeats(es) ==
    {j \in DOMAIN es : /\ es[j].kind = "attr"
                       /\ \E i \in 1 .. j - 1 : es[i].kind = "attr" /\ es[i].path = es[j].path}

\* A handle is wired to its attribute, now live, when its entry is replayed:
\* the last one of that path, if it is among the first k.
Wired(k) ==
    [a \in Attrs |->
        IF /\ attr_handle[a] = "placeholder"
           /\ Has(pending, "attr", a)
           /\ \A i \in DOMAIN pending : pending[i] = AttrEntry(a) => i <= k
        THEN "live" ELSE attr_handle[a]]

\* The replay ends, the cell's status is set and its queue taken over.
Resolved(ret) ==
    /\ outcome' = ret
    /\ IF current_completion = 0
       THEN UNCHANGED <<cells, notify_list, verdict>>
       ELSE /\ cells' = [cells EXCEPT ![current_completion].status = ret,
                                      ![current_completion].queue = <<>>]
            /\ notify_list' = cells[current_completion].queue
            /\ verdict' = [verdict EXCEPT ![current_completion] = ret]

EndStep ==
    LET n == physical_step IN
    /\ step_state = "IN_STEP"
    /\ Repeats(Folded) = {}
    /\ step_state' = "COMMITTING"
    /\ stream' = [stream EXCEPT ![n] = Replayed(Folded, n)]
    /\ links' = LinksNoted(Folded, n, Len(Folded))
    /\ pending' = <<>>
    /\ group_attrs' = <<>>
    /\ attr_handle' = Wired(Len(pending))
    /\ Resolved(1)
    /\ UNCHANGED <<physical_step, fails, live, current_completion, request,
                   told, forgotten, misnoted>>

\* The replay fails behind the first k entries, with their links noted and
\* their handles wired. What was folded is not noted again.
EndStepFails(k) ==
    /\ step_state = "IN_STEP"
    /\ k <= Len(Folded)
    /\ \A j \in Repeats(Folded) : k < j
    /\ \/ k + 1 \in Repeats(Folded)
       \/ "late" \in Faults \/ ("early" \in Faults /\ k = 0)
    /\ fails < MaxFails /\ fails' = fails + 1
    /\ step_state' = "COMMITTING"
    /\ links' = LinksNoted(Folded, physical_step, k)
    /\ misnoted' = misnoted \cup
         {l \in Links : MadeBy(Folded, l, physical_step, k) # {}}
    /\ pending' = <<>>
    /\ group_attrs' = <<>>
    /\ forgotten' = forgotten \cup
         {a \in GroupAttrs : \E i \in DOMAIN group_attrs : group_attrs[i] = a}
    /\ attr_handle' = Wired(k)
    /\ Resolved(-1)
    /\ UNCHANGED <<physical_step, live, stream, current_completion, request,
                   told>>

\* end_step calls one queued callback.
InvokeNotify ==
    /\ step_state = "COMMITTING"
    /\ notify_list # <<>>
    /\ told' = [told EXCEPT ![Head(notify_list)] = Append(@, outcome)]
    /\ notify_list' = Tail(notify_list)
    /\ UNCHANGED <<step_state, captureVars, requestVars, streamVars, outcome,
                   verdict, forgotten, misnoted>>

\* ... and then drops the file's reference and returns.
EndStepReturns ==
    /\ step_state = "COMMITTING"
    /\ notify_list = <<>>
    /\ step_state' = "NOT_IN_STEP"
    /\ physical_step' = IF outcome = 1 THEN physical_step + 1 ELSE physical_step
    /\ cells' = IF current_completion = 0 THEN cells
                ELSE Decref(cells, current_completion)
    /\ current_completion' = 0
    /\ outcome' = 0
    /\ UNCHANGED <<captureVars, fails, links, stream, notify_list, request,
                   historyVars>>

\* H5Fclose, the last reference: an open step is discarded and its cell,
\* still pending, is left to whoever holds a request.
FileClose ==
    /\ step_state \in {"NOT_IN_STEP", "IN_STEP"}
    /\ step_state' = "closed"
    /\ pending' = <<>> /\ group_attrs' = <<>>
    /\ cells' = IF current_completion = 0 THEN cells
                ELSE Decref(cells, current_completion)
    /\ current_completion' = 0
    /\ UNCHANGED <<attr_handle, live, streamVars, resolveVars, request,
                   historyVars>>

\* A finished run.
Done ==
    /\ \/ step_state = "closed" /\ \A q \in Reqs : request[q].state # "held"
       \/ step_state = "crashed"
    /\ UNCHANGED vars

Next ==
    \/ BeginStep \/ EndStep \/ InvokeNotify \/ EndStepReturns \/ FileClose \/ Done
    \/ \E k \in 0 .. MaxEntries : EndStepFails(k)
    \/ \E d \in Dsets, q \in Reqs \cup {None} : DatasetWrite(d, q)
    \/ \E a \in Attrs : AttrCreate(a) \/ AttrClose(a)
    \/ \E a \in Attrs, q \in Reqs \cup {None} : AttrWrite(a, q) \/ AttrWriteStale(a, q)
    \/ \E a \in GroupAttrs : AttrCreateLive(a) \/ AttrDelete(a)
    \/ \E l \in Links, d \in Dsets, t \in {"h", "s"} : LinkCreate(l, d, t)
    \/ \E q \in Reqs : RequestNotify(q) \/ RequestFree(q)

Spec == Init /\ [][Next]_vars

-----------------------------------------------------------------------------
(* Properties.                                                             *)

\* Every variable has the type the code gives it.
TypeOK ==
    /\ step_state \in {"NOT_IN_STEP", "IN_STEP", "COMMITTING", "closed", "crashed"}
    /\ physical_step \in Steps
    /\ pending \in Seq(Entry)
    /\ attr_handle \in [Attrs -> {"closed", "placeholder", "live"}]
    /\ live \subseteq GroupAttrs
    /\ group_attrs \in Seq(GroupAttrs)
    /\ links \in [Links -> [target : Dsets, type : {"h", "s"}] \cup {None}]
    /\ stream \in [Steps -> Content]
    /\ \A c \in DOMAIN cells : /\ cells[c].status \in {-1, 0, 1}
                               /\ cells[c].refs \in Nat
                               /\ cells[c].queue \in Seq(Reqs)
    /\ current_completion \in 0 .. Len(cells)
    /\ request \in [Reqs -> [state : RequestStates, cell : 0 .. Len(cells)]]

\* Read as of any committed step, a link leads to the copy of its target
\* that is current at that step: fold_links repeats it in each step that
\* writes the target, and the second pass of the replay lets it see a create
\* captured after it. A step that fails spoils no links but those that it had
\* noted when it failed.
LinkFollows ==
    \A n \in 0 .. physical_step - 1, l \in Links \ misnoted :
        LET at == {k \in 0 .. n : stream[k].link[l] # None}
            e  == stream[Max(at)].link[l]
        IN  at # {} => e.step = Resolve(stream, e.target, n)

\* A group attribute created outside a step is waiting for the next fold or
\* is in the stream, unless the step that took it failed: nothing else loses
\* it between the live file and the manifest.
GroupAttrsArrive ==
    step_state # "closed" =>
        \A a \in live :
            \/ \E i \in DOMAIN group_attrs : group_attrs[i] = a
            \/ \E n \in Steps : a \in stream[n].attr
            \/ a \in forgotten

\* A completion cell lives as long as the file or a held request refers to
\* it and no longer, whatever is called from inside its own callbacks.
CellsAccounted ==
    \A c \in DOMAIN cells :
        cells[c].refs > 0 <=>
            \/ c = current_completion
            \/ \E q \in Reqs : request[q].state = "held" /\ request[q].cell = c

\* A callback given to request_notify, before, during or after the end_step
\* that resolves its cell, is called once, with how that step ended.
CalledBackOnce ==
    \A q \in Reqs : request[q].state = "notified" =>
        LET c == request[q].cell IN
        /\ told[q] \in {<<>>, <<verdict[c]>>}
        /\ verdict[c] # 0 /\ step_state # "COMMITTING" => told[q] # <<>>
        /\ verdict[c] = 0 => told[q] = <<>>
=============================================================================
