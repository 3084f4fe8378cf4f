------------------------------- MODULE Drafts -------------------------------
(***************************************************************************)
(* Unsent work in one browser tab: the draft store (DraftStore) with its   *)
(* copy in the tab's storage, the forms that write to it (FormDraft, in the*)
(* creation page, the content editor and the organization editor), and the *)
(* server those forms submit to.                                           *)
(*                                                                         *)
(* A draft lease is [owner, generation]; every change of identity or of    *)
(* workspace bumps the store's generation, so a lease is valid until the   *)
(* first bump after it was issued. The model keeps in each form whether one*)
(* has happened (leased), not the counter.                                 *)
(***************************************************************************)
EXTENDS Naturals, FiniteSets

CONSTANTS Owners,         \* records [user, place]: who types, in which workspace
          Personal,       \* the owners whose place is their personal notebook
          Keys,           \* the forms, a subset of {"create", "edit", "organize"}
          MaxEntries,     \* MAX_ENTRIES of the store
          MaxVersion,     \* bound: server versions of a recipe
          MaxAccess,      \* bound: access versions of a Bar
          MaxForms,       \* bound: forms mounted at the same time
          StorageFaults   \* whether the browser may refuse to write or to erase

ASSUME DraftsAssumption ==
    /\ \A o \in Owners : DOMAIN o = {"user", "place"}
    /\ Personal \subseteq Owners
    /\ Keys \subseteq {"create", "edit", "organize"}
    /\ MaxEntries \in Nat \ {0} /\ MaxVersion \in Nat \ {0} /\ MaxAccess \in Nat /\ MaxForms \in Nat
    /\ StorageFaults \in BOOLEAN

VARIABLES store,     \* DraftStore and the tab's storage
          forms,     \* the mounted forms, one FormDraft each, or None
          srv,       \* the version of the recipe behind each form, 0: absent
          unknown    \* history: owners and forms with a submission of unknown fate

draftVars == <<store, forms, srv, unknown>>

None   == [none |-> TRUE]
Places == {o.place : o \in Owners}
Empty  == [k \in Keys |-> None]
Flip   == IF StorageFaults THEN BOOLEAN ELSE {TRUE}

(* home, base and purged are history: who typed the entry, the version it  *)
(* was typed on, and whether a purge has been asked for since.             *)
Entries == [version : 0..MaxVersion, access : 0..MaxAccess, uncertain : BOOLEAN,
            home : Owners, base : 0..MaxVersion, purged : BOOLEAN]

(* loaded is the version the page shows, version the one the draft is for, *)
(* held the organization editor's hasConflict, seen the server version the *)
(* user is comparing with (NoVersion: none); shown and access are the same *)
(* pair for the access version of the Bar.                                 *)
NoVersion == MaxVersion + 1
Forms == [home : Owners, leased : BOOLEAN, candidate : BOOLEAN, dirty : BOOLEAN,
          pending : {"no", "save", "folder"}, uncertain : BOOLEAN, conflict : BOOLEAN, held : BOOLEAN,
          loaded : 0..MaxVersion, version : 0..MaxVersion, base : 0..MaxVersion, seen : 0..NoVersion,
          access : 0..MaxAccess, shown : 0..MaxAccess]

TypeOK ==
    /\ store.owner \in Owners \cup {None}
    /\ store.active \in BOOLEAN /\ store.purgePending \in BOOLEAN
    /\ store.pending \subseteq Keys
    /\ store.entries \in [Keys -> Entries \cup {None}]
    /\ store.disk = None \/ /\ store.disk.owner \in Owners
                            /\ store.disk.entries \in [Keys -> Entries \cup {None}]
    /\ forms \in [Keys -> Forms \cup {None}]
    /\ srv \in [Places -> [Keys -> 0..MaxVersion]]
    /\ unknown \subseteq Owners \X Keys

----------------------------------------------------------------------------
(* The store. Every method that touches the storage is the set of states   *)
(* it may leave, one per outcome of the browser's write and erase.         *)

EraseStorage(s) ==
    {[s EXCEPT !.purgePending = ~ok, !.disk = IF ok THEN None ELSE @] : ok \in Flip}

Persist(s) ==
    UNION {IF t.purgePending
           THEN {[ok |-> FALSE, s |-> t]}
           ELSE {[ok |-> ok, s |-> IF ok THEN [t EXCEPT !.disk = [owner |-> t.owner, entries |-> t.entries]]
                                         ELSE t] : ok \in Flip}
           : t \in IF s.purgePending THEN EraseStorage(s) ELSE {s}}

Save(s, k, e) ==
    IF Cardinality({j \in Keys \ {k} : s.entries[j] # None}) >= MaxEntries
    THEN {[ok |-> FALSE, s |-> s]}
    ELSE Persist([s EXCEPT !.entries[k] = e])

(* Mutation: the request leaves whatever the browser answered.             *)
PrepareAnyway(s, k, e) ==
    {[ok |-> TRUE, s |-> r.s] : r \in Save(s, k, [e EXCEPT !.uncertain = TRUE])}

PrepareMutation(s, k, e) ==
    UNION {IF r.ok THEN {r} ELSE {[ok |-> ~t.purgePending, s |-> t] : t \in EraseStorage(r.s)}
           : r \in Save(s, k, [e EXCEPT !.uncertain = TRUE])}

SetUncertain(s, k, u) ==
    LET marked == IF s.entries[k] = None THEN s ELSE [s EXCEPT !.entries[k].uncertain = u]
    IN {r.s : r \in Persist(marked)}

Remove(s, k) ==
    UNION {IF r.ok THEN {r.s} ELSE EraseStorage(r.s) : r \in Persist([s EXCEPT !.entries[k] = None])}

Suspend(s) == [s EXCEPT !.active = FALSE, !.pending = {}]

(* The disk copy left by an erasure that failed is marked as purged.       *)
Purge(s) ==
    LET old(d) == [d EXCEPT !.entries = [k \in Keys |-> IF d.entries[k] = None THEN None
                                                       ELSE [d.entries[k] EXCEPT !.purged = TRUE]]]
    IN EraseStorage([s EXCEPT !.owner = None, !.active = FALSE, !.entries = Empty, !.pending = {},
                              !.disk = IF @ = None THEN None ELSE old(@)])

Read(s, o) ==
    IF s.disk = None THEN {[s EXCEPT !.entries = Empty]}
    ELSE IF s.disk.owner = o THEN {[s EXCEPT !.entries = s.disk.entries]}
    ELSE EraseStorage([s EXCEPT !.entries = Empty])

(* Mutation: the storage is read although its purge is still pending.      *)
ConfirmRereading(s, o) ==
    LET left == IF s.owner \notin {None, o} THEN Purge(s) ELSE {s}
    IN {[t EXCEPT !.active = TRUE] :
          t \in UNION {IF t.owner = o THEN {t} ELSE Read([t EXCEPT !.owner = o], o) : t \in left}}

ConfirmIdentity(s, o) ==
    LET left     == IF s.owner \notin {None, o} THEN Purge(s) ELSE {s}
        retried  == UNION {IF t.purgePending THEN EraseStorage(t) ELSE {t} : t \in left}
        adopt(t) == IF t.owner = o THEN {t}
                    ELSE IF t.purgePending THEN {[t EXCEPT !.owner = o, !.entries = Empty]}
                    ELSE Read([t EXCEPT !.owner = o], o)
    IN {[t EXCEPT !.active = TRUE] : t \in UNION {adopt(t) : t \in retried}}

----------------------------------------------------------------------------
(* A mounted form.                                                         *)

(* Mutation: the generation of a lease is not compared.                    *)
ValidWhenActive(f) == store.active

Valid(f) == f.leased /\ store.active

(* Forms mounted before an identity change keep a lease that is dead.      *)
EndLeases(fs) == [k \in Keys |-> IF fs[k] = None THEN None ELSE [fs[k] EXCEPT !.leased = FALSE]]

EntryOf(f) == [version |-> f.version, access |-> f.access, uncertain |-> f.uncertain,
               home |-> f.home, base |-> f.base, purged |-> FALSE]

Copies(s, slot) ==
    {e \in (IF s.owner = slot[1] THEN {s.entries[slot[2]]} ELSE {})
             \cup (IF s.disk # None /\ s.disk.owner = slot[1] THEN {s.disk.entries[slot[2]]} ELSE {})
       : e # None}

(* A submission stays unknown as long as a copy of its form is left that   *)
(* no purge was meant to destroy.                                          *)
SetStore(s, u) ==
    /\ store' = s
    /\ unknown' = {slot \in u : \E e \in Copies(s, slot) : ~e.purged}

SetForm(k, f) == forms' = [forms EXCEPT ![k] = f]

CallOf(k) == [home |-> forms[k].home, key |-> k, what |-> forms[k].pending,
              expected |-> forms[k].version, base |-> forms[k].base, access |-> forms[k].access]
Waiting(k) == forms[k] # None /\ forms[k].pending # "no"

(* The version a form starts from: a creation has none.                    *)
Current(o, k) == IF k = "create" THEN 0 ELSE srv[o.place][k]

Cleaned(f, v) ==
    [f EXCEPT !.candidate = FALSE, !.pending = "no", !.dirty = FALSE, !.uncertain = FALSE,
              !.conflict = FALSE, !.held = FALSE, !.loaded = v, !.version = v, !.base = v,
              !.seen = NoVersion, !.access = f.shown]

(* FormDraft.succeeded and discard: the entry goes and the form is clean.  *)
Succeeded(k, f) ==
    /\ SetForm(k, f)
    /\ IF Valid(forms[k])
       THEN \E s \in Remove([store EXCEPT !.pending = @ \ {k}], k) :
               SetStore(s, unknown \ {<<store.owner, k>>})
       ELSE UNCHANGED <<store, unknown>>

Open(k, access) ==
    /\ store.active /\ forms[k] = None
    /\ Cardinality({j \in Keys : forms[j] # None}) < MaxForms
    /\ k = "create" => \A j \in Keys : forms[j] = None
    /\ k # "create" => /\ "create" \in Keys => forms["create"] = None
                       /\ Current(store.owner, k) > 0
    /\ k = "organize" => store.owner \in Personal
    /\ LET v == Current(store.owner, k)
       IN SetForm(k, [home |-> store.owner, leased |-> TRUE, candidate |-> store.entries[k] # None,
                      dirty |-> FALSE, pending |-> "no", uncertain |-> FALSE, conflict |-> FALSE,
                      held |-> FALSE, loaded |-> v, version |-> v, base |-> v, seen |-> NoVersion,
                      access |-> access, shown |-> access])
    /\ UNCHANGED <<store, srv, unknown>>

(* The user types: FormDraft.capture.                                      *)
Type(k) ==
    /\ forms[k] # None /\ ~forms[k].candidate /\ Valid(forms[k])
    /\ SetForm(k, [forms[k] EXCEPT !.dirty = TRUE])
    /\ \E r \in Save(store, k, EntryOf(forms[k])) : SetStore(r.s, unknown)
    /\ UNCHANGED srv

(* Mutation: a restored draft is sent on the version the page has loaded.  *)
RestoredRebased(f, e) ==
    [f EXCEPT !.candidate = FALSE, !.dirty = TRUE, !.uncertain = e.uncertain, !.base = e.base,
              !.access = e.access]

(* A draft typed on another version, or under another access version of    *)
(* its Bar than the one the page shows, comes back in conflict.            *)
Restored(f, e) ==
    LET clash == e.version # f.version \/ (f.home \notin Personal /\ e.access # f.shown)
    IN [f EXCEPT !.candidate = FALSE, !.dirty = TRUE, !.conflict = clash, !.held = clash,
                 !.uncertain = e.uncertain, !.version = e.version, !.base = e.base, !.access = e.access]

Restore(k) ==
    /\ forms[k] # None /\ forms[k].candidate
    /\ k = "edit" => Valid(forms[k])
    /\ SetForm(k, IF Valid(forms[k]) /\ store.entries[k] # None
                  THEN Restored(forms[k], store.entries[k])
                  ELSE [forms[k] EXCEPT !.candidate = FALSE])
    /\ UNCHANGED <<store, srv, unknown>>

(* FormDraft.begin: capture, then no request leaves before the storage says*)
(* that the form is uncertain, or says nothing.                            *)
Begin(k, what) ==
    LET f == forms[k]
    IN /\ f # None
       /\ Valid(f) /\ ~f.candidate /\ f.pending = "no" /\ ~f.uncertain /\ ~f.conflict
       /\ what = "save" => ~f.held
       /\ what = "folder" => k = "organize"
       /\ \E saved \in Save(store, k, EntryOf(f)) :
          \E r \in PrepareMutation(saved.s, k, EntryOf(f)) :
             IF r.ok
             THEN /\ SetStore([r.s EXCEPT !.pending = @ \cup {k}], unknown \cup {<<store.owner, k>>})
                  /\ SetForm(k, [f EXCEPT !.dirty = TRUE, !.pending = what, !.uncertain = TRUE])
             ELSE /\ SetStore(r.s, unknown)
                  /\ SetForm(k, [f EXCEPT !.dirty = TRUE])
    /\ UNCHANGED srv

----------------------------------------------------------------------------
(* The server: a creation needs a free name, a save the version it expects.*)
(* A folder leaves no version behind.                                      *)

Applies(c) ==
    LET v == srv[c.home.place][c.key]
    IN CASE c.what = "folder"  -> TRUE
         [] c.key = "create"   -> v = 0 /\ v < MaxVersion
         [] OTHER              -> v = c.expected /\ v < MaxVersion
Applied(c) == IF c.what = "folder" THEN srv ELSE [srv EXCEPT ![c.home.place][c.key] = @ + 1]

(* A definite answer reaches a form that still waits for it. The content   *)
(* editor looks at its lease first; the others hold on to the answer.      *)
Heard(k) == k # "edit" \/ Valid(forms[k])

AnswerOk(k) ==
    /\ Waiting(k) /\ Applies(CallOf(k))
    /\ srv' = Applied(CallOf(k))
    /\ LET f == forms[k]
           v == srv'[f.home.place][k]
       IN CASE ~Heard(k) -> /\ SetForm(k, [f EXCEPT !.pending = "no"])
                            /\ UNCHANGED <<store, unknown>>
            [] Heard(k) /\ f.pending = "folder" ->
                 LET g == [f EXCEPT !.pending = "no", !.uncertain = FALSE]
                 IN /\ SetForm(k, g)
                    /\ IF Valid(f)
                       THEN \E s \in SetUncertain([store EXCEPT !.pending = @ \ {k}], k, FALSE) :
                            \E r \in Save(s, k, EntryOf(g)) :
                               SetStore(r.s, unknown \ {<<store.owner, k>>})
                       ELSE UNCHANGED <<store, unknown>>
            [] OTHER -> Succeeded(k, IF k = "create" THEN None ELSE Cleaned(f, v))

(* 400, 401, 403, 404 and 409: nothing was written.                        *)
AnswerRefused(k, status) ==
    /\ Waiting(k)
    /\ LET f == forms[k]
           over == [f EXCEPT !.pending = "no"]
       IN IF ~Heard(k)
          THEN SetForm(k, over) /\ UNCHANGED <<store, unknown>>
          ELSE /\ SetForm(k, [over EXCEPT !.uncertain = FALSE,
                                          !.conflict = @ \/ (k = "edit" /\ status = "conflict"),
                                          !.held = @ \/ (f.pending = "save" /\ status = "conflict")])
               /\ IF Valid(f)
                  THEN \E s \in SetUncertain([store EXCEPT !.pending = @ \ {k}], k, FALSE) :
                          SetStore(s, unknown \ {<<store.owner, k>>})
                  ELSE UNCHANGED <<store, unknown>>
    /\ UNCHANGED srv

(* No answer, an answer that says nothing, or one given up because the     *)
(* context changed: the request may be handled all the same, or never.     *)
AnswerUnknown(k) ==
    /\ Waiting(k)
    /\ SetForm(k, [forms[k] EXCEPT !.pending = "no"])
    /\ store' = IF Valid(forms[k]) THEN [store EXCEPT !.pending = @ \ {k}] ELSE store
    /\ UNCHANGED <<srv, unknown>>

(* The recipe moves behind the form's back: another device edits it, or a  *)
(* request nobody waits for any more is handled after all.                 *)
Elsewhere(p, k) ==
    /\ srv[p][k] < MaxVersion
    /\ srv' = [srv EXCEPT ![p][k] = @ + 1]
    /\ UNCHANGED <<store, forms, unknown>>

----------------------------------------------------------------------------
(* What the user does about a draft that cannot simply be sent again.      *)

(* "I have checked": offered by the notice, except in the content editor.  *)
VerifiedAbsent(k) ==
    /\ k # "edit" /\ forms[k] # None /\ forms[k].uncertain /\ forms[k].pending = "no"
    /\ SetForm(k, [forms[k] EXCEPT !.uncertain = FALSE])
    /\ IF Valid(forms[k])
       THEN \E s \in SetUncertain(store, k, FALSE) : SetStore(s, unknown \ {<<store.owner, k>>})
       ELSE UNCHANGED <<store, unknown>>
    /\ UNCHANGED srv

Discard(k) ==
    /\ forms[k] # None /\ forms[k].pending = "no" /\ (forms[k].candidate \/ forms[k].dirty)
    /\ k = "edit" => Valid(forms[k]) /\ ~forms[k].conflict /\ ~forms[k].uncertain
    /\ Succeeded(k, Cleaned(forms[k], forms[k].loaded))
    /\ UNCHANGED srv

(* The content editor shows the server's recipe before it gives up a draft.*)
CompareServer ==
    /\ forms["edit"] # None /\ Valid(forms["edit"]) /\ forms["edit"].pending = "no"
    /\ SetForm("edit", [forms["edit"] EXCEPT !.seen = Current(forms["edit"].home, "edit")])
    /\ UNCHANGED <<store, srv, unknown>>

UseServer(access) ==
    /\ forms["edit"] # None /\ Valid(forms["edit"]) /\ forms["edit"].pending = "no"
    /\ forms["edit"].seen # NoVersion /\ (forms["edit"].home \in Personal => access = 0)
    /\ Succeeded("edit", Cleaned([forms["edit"] EXCEPT !.shown = access], forms["edit"].seen))
    /\ UNCHANGED srv

ReloadOrganization ==
    /\ forms["organize"] # None /\ forms["organize"].pending = "no"
    /\ LET v == Current(forms["organize"].home, "organize")
       IN Succeeded("organize", Cleaned(forms["organize"], v))
    /\ UNCHANGED srv

(* The page goes; an unsubscribed request may have been sent.              *)
Leave(k) ==
    /\ forms[k] # None
    /\ SetForm(k, None)
    /\ store' = IF Valid(forms[k]) THEN [store EXCEPT !.pending = @ \ {k}] ELSE store
    /\ UNCHANGED <<srv, unknown>>

----------------------------------------------------------------------------
(* The identity, the clock and the tab.                                    *)

Confirm(o) ==
    /\ \E s \in ConfirmIdentity(store, o) : SetStore(s, unknown)
    /\ forms' = IF store.owner = o THEN forms ELSE EndLeases(forms)
    /\ UNCHANGED srv

SuspendDrafts ==
    /\ store' = Suspend(store)
    /\ forms' = EndLeases(forms)
    /\ UNCHANGED <<srv, unknown>>

PurgeDrafts ==
    /\ \E s \in Purge(store) : SetStore(s, unknown)
    /\ forms' = EndLeases(forms)
    /\ UNCHANGED srv

(* 24 hours pass over an entry: the next method to run prunes it.          *)
Expire(k) ==
    /\ store.entries[k] # None
    /\ LET aged == [store EXCEPT !.entries[k] = None,
                                 !.disk = IF @ = None THEN None ELSE [@ EXCEPT !.entries[k] = None]]
       IN \E r \in Persist(aged) : SetStore(r.s, unknown)
    /\ UNCHANGED <<forms, srv>>

(* A reload keeps the storage only; its purge mark is forgotten with the   *)
(* memory that knew of it.                                                 *)
Reload ==
    /\ LET kept(d) == [d EXCEPT !.entries = [k \in Keys |-> IF d.entries[k] = None THEN None
                                                            ELSE [d.entries[k] EXCEPT !.purged = FALSE]]]
       IN SetStore([owner |-> None, active |-> FALSE, entries |-> Empty, pending |-> {},
                    purgePending |-> FALSE,
                    disk |-> IF store.disk = None THEN None ELSE kept(store.disk)], unknown)
    /\ forms' = Empty
    /\ UNCHANGED srv

----------------------------------------------------------------------------
Init ==
    /\ store = [owner |-> None, active |-> FALSE, entries |-> Empty, pending |-> {},
                purgePending |-> FALSE, disk |-> None]
    /\ forms = Empty
    /\ srv \in {[p \in Places |-> [k \in Keys |-> IF k = "create" THEN 0 ELSE 1]]}
    /\ unknown = {}

AccessAt(o) == IF o \in Personal THEN {0} ELSE 0..MaxAccess

FormStep(k) ==
    \/ store.active /\ \E a \in AccessAt(store.owner) : Open(k, a)
    \/ Type(k) \/ Restore(k) \/ VerifiedAbsent(k) \/ Discard(k) \/ Leave(k) \/ Expire(k)
    \/ \E what \in {"save", "folder"} : Begin(k, what)
    \/ AnswerOk(k) \/ AnswerUnknown(k)
    \/ \E status \in {"refused", "conflict"} : AnswerRefused(k, status)

Next ==
    \/ \E k \in Keys : FormStep(k)
    \/ "edit" \in Keys /\ (CompareServer \/ \E a \in 0..MaxAccess : UseServer(a))
    \/ "organize" \in Keys /\ ReloadOrganization
    \/ \E p \in Places, k \in Keys : Elsewhere(p, k)
    \/ \E o \in Owners : Confirm(o)
    \/ SuspendDrafts \/ PurgeDrafts \/ Reload

Spec == Init /\ [][Next]_draftVars

----------------------------------------------------------------------------
(* Whoever typed an entry is the owner under whom it can be read again, in *)
(* memory and in the tab's storage, whatever was still mounted when the    *)
(* account or the workspace changed.                                       *)
DraftsStayHome ==
    /\ \A k \in Keys : store.entries[k] # None => store.entries[k].home = store.owner
    /\ store.disk # None =>
         \A k \in Keys : store.disk.entries[k] # None => store.disk.entries[k].home = store.disk.owner

(* Once a purge was asked for, nothing typed before it comes back in this  *)
(* page, even when the browser refused to erase the stored copy.           *)
PurgedNeverComesBack ==
    \A k \in Keys : store.entries[k] # None => ~store.entries[k].purged

(* Content goes to the server with the version it was typed on, however it *)
(* came back into the form: restored, compared, reloaded, sent before.     *)
SavesNameTheirBase ==
    \A k \in Keys : Waiting(k) => CallOf(k).expected = CallOf(k).base

(* The forms, the store and the storage together keep the vault's promise. *)
Vault == INSTANCE DraftVault WITH
    Owners  <- Owners,
    Keys    <- Keys,
    Nobody  <- None,
    served  <- IF store.active THEN store.owner ELSE None,
    offers  <- [slot \in Owners \X Keys |->
                  {IF e.uncertain THEN "uncertain" ELSE "unsent" : e \in Copies(store, slot)}],
    unknown <- unknown

ImplementsVault == Vault!VaultSpec
=============================================================================
