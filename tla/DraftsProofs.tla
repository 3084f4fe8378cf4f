---------------------------- MODULE DraftsProofs ----------------------------
(***************************************************************************)
(* Drafts, proved for any owners, forms, limits and faults of the storage: *)
(* its types, where an entry may be read again, what a purge destroys, the *)
(* version a save names, and that the forms, the store and the storage are *)
(* together a DraftVault. The methods of the store come first (one lemma   *)
(* per method: what it leaves in memory and in the storage), then what     *)
(* they do to the copies of a form, then one lemma per action.             *)
(***************************************************************************)
EXTENDS Workspace, FiniteSetTheorems, TLAPS

Slots == Owners \X Keys
Disks == [owner : Owners, entries : [Keys -> Entries \cup {None}]]
Stores == [owner : Owners \cup {None}, active : BOOLEAN, purgePending : BOOLEAN, pending : SUBSET Keys,
           entries : [Keys -> Entries \cup {None}], disk : Disks \cup {None}]

\* The copies of one owner: typed by them, on the version they would be sent
\* with, and no more of them than the store may hold.
OfOwner(entries, o) ==
    /\ \A k \in Keys : entries[k] # None => entries[k].home = o /\ entries[k].version = entries[k].base
    /\ Cardinality({k \in Keys : entries[k] # None}) <= MaxEntries

\* What a purge should have erased is only left where the store knows of it.
StoreOK(s) ==
    /\ s \in Stores /\ (s.active => s.owner \in Owners)
    /\ OfOwner(s.entries, s.owner)
    /\ \A k \in Keys : s.entries[k] # None => ~s.entries[k].purged
    /\ s.disk # None => OfOwner(s.disk.entries, s.disk.owner)
    /\ s.disk # None /\ ~s.purgePending =>
          \A k \in Keys : s.disk.entries[k] # None => ~s.disk.entries[k].purged
    /\ s.disk # None /\ s.purgePending /\ s.owner = None =>
          \A k \in Keys : s.disk.entries[k] # None => s.disk.entries[k].purged

\* A live lease is that of the owner being served, and a form waits for an
\* answer only after it was marked as uncertain.
FormOK(f, s) ==
    f # None =>
        /\ f.version = f.base
        /\ f.pending # "no" => f.uncertain /\ ~f.candidate
        /\ f.leased => s.active /\ f.home = s.owner

\* How the copies of a form are offered: the abstract value of the store.
Offer(s, slot) == {IF e.uncertain THEN "uncertain" ELSE "unsent" : e \in Copies(s, slot)}
Left(s, slot)  == \E e \in Copies(s, slot) : ~e.purged

\* A submission of unknown fate has a copy left, and none is offered as
\* unsent; of the owner being served, the store has one, its storage holds
\* nobody else's work, and a form that shows the work knows that it was sent.
UnknownOK(s, f, slot) ==
    /\ Left(s, slot)
    /\ "unsent" \notin Offer(s, slot)
    /\ slot[1] = s.owner =>
         /\ s.entries[slot[2]] # None
         /\ s.disk = None \/ s.disk.owner = s.owner
         /\ f # None /\ f.leased /\ ~f.candidate => f.uncertain

DraftsInv ==
    /\ StoreOK(store)
    /\ forms \in [Keys -> Forms \cup {None}] /\ \A k \in Keys : FormOK(forms[k], store)
    /\ srv \in [Places -> [Keys -> 0..MaxVersion]]
    /\ unknown \subseteq Slots
    /\ \A slot \in unknown : UnknownOK(store, forms[slot[2]], slot)

----------------------------------------------------------------------------
\* Nobody is an owner, and no record stands for nothing.
LEMMA NoneIsNothing ==
    /\ None \notin Owners /\ None \notin Entries /\ None \notin Forms /\ None \notin Disks
<1>1. DOMAIN None = {"none"}
  BY DEF None
<1>2. \A o \in Owners : DOMAIN o = {"user", "place"}
  BY DraftsAssumption
<1>3. "none" \notin {"user", "place"}
  OBVIOUS
<1>4. None \notin Owners
  BY <1>1, <1>2, <1>3
<1>5. \A e \in Entries : DOMAIN e # DOMAIN None
  BY <1>1 DEF Entries
<1>6. \A f \in Forms : DOMAIN f # DOMAIN None
  BY <1>1 DEF Forms
<1>7. \A d \in Disks : DOMAIN d # DOMAIN None
  BY <1>1 DEF Disks
<1> QED BY <1>4, <1>5, <1>6, <1>7

LEMMA Finite == \A S \in SUBSET Keys : IsFiniteSet(S) /\ Cardinality(S) \in Nat
<1>1. IsFiniteSet({"create", "edit", "organize"})
  <2>1. IsFiniteSet({"create"} \cup {"edit"})
    BY FS_Singleton, FS_AddElement
  <2>2. IsFiniteSet(({"create"} \cup {"edit"}) \cup {"organize"})
    BY <2>1, FS_AddElement
  <2>3. ({"create"} \cup {"edit"}) \cup {"organize"} = {"create", "edit", "organize"}
    OBVIOUS
  <2> QED BY <2>2, <2>3
<1> QED BY <1>1, FS_Subset, FS_CardinalityType, DraftsAssumption

\* What an entry more or less means for the number of entries.
LEMMA Counted ==
    ASSUME NEW entries \in [Keys -> Entries \cup {None}], NEW k \in Keys, NEW o \in Owners \cup {None},
           OfOwner(entries, o)
    PROVE  /\ OfOwner([entries EXCEPT ![k] = None], o)
           /\ entries[k] # None => Cardinality({j \in Keys \ {k} : entries[j] # None}) < MaxEntries
           /\ \A e \in Entries :
                e.home = o /\ e.version = e.base
                  /\ Cardinality({j \in Keys \ {k} : entries[j] # None}) < MaxEntries =>
                OfOwner([entries EXCEPT ![k] = e], o)
<1> DEFINE all == {j \in Keys : entries[j] # None}
           others == {j \in Keys \ {k} : entries[j] # None}
<1>1. /\ IsFiniteSet(all) /\ IsFiniteSet(others) /\ Cardinality(all) \in Nat /\ Cardinality(others) \in Nat
      /\ Cardinality(all) <= MaxEntries /\ MaxEntries \in Nat
  BY Finite, DraftsAssumption DEF OfOwner
<1>2. Cardinality(others) <= Cardinality(all)
  BY <1>1, FS_Subset
<1>3. entries[k] # None => Cardinality(others) = Cardinality(all) - 1
  BY <1>1, FS_RemoveElement
<1>4. {j \in Keys : [entries EXCEPT ![k] = None][j] # None} = others
  OBVIOUS
<1>5. OfOwner([entries EXCEPT ![k] = None], o)
  BY <1>1, <1>2, <1>4 DEF OfOwner
<1>6. ASSUME NEW e \in Entries, e.home = o /\ e.version = e.base, Cardinality(others) < MaxEntries
      PROVE  OfOwner([entries EXCEPT ![k] = e], o)
  <2>1. {j \in Keys : [entries EXCEPT ![k] = e][j] # None} = others \cup {k}
    BY NoneIsNothing
  <2>2. Cardinality(others \cup {k}) = Cardinality(others) + 1
    BY <1>1, FS_AddElement
  <2>3. Cardinality(others \cup {k}) <= MaxEntries
    BY <1>1, <1>6, <2>2
  <2>4. \A j \in Keys : [entries EXCEPT ![k] = e][j] # None =>
           [entries EXCEPT ![k] = e][j].home = o
             /\ [entries EXCEPT ![k] = e][j].version = [entries EXCEPT ![k] = e][j].base
    BY <1>6 DEF OfOwner
  <2> QED BY <2>1, <2>3, <2>4 DEF OfOwner
<1> QED BY <1>1, <1>3, <1>5, <1>6

----------------------------------------------------------------------------
(* The methods of the store.                                               *)

LEMMA EraseFacts ==
    ASSUME NEW s, StoreOK(s), s.owner \in Owners \/ s.purgePending, NEW t \in EraseStorage(s)
    PROVE  /\ StoreOK(t) /\ t.owner = s.owner /\ t.active = s.active /\ t.entries = s.entries
           /\ t.disk = None \/ (t.disk = s.disk /\ t.purgePending)
           /\ ~t.purgePending => t.disk = None
<1>1. PICK ok \in BOOLEAN : t = [s EXCEPT !.purgePending = ~ok, !.disk = IF ok THEN None ELSE s.disk]
  BY DEF EraseStorage, Flip
<1>2. /\ t \in Stores /\ t.owner = s.owner /\ t.active = s.active /\ t.entries = s.entries
      /\ t.purgePending = ~ok
      /\ t.disk = IF ok THEN None ELSE s.disk
  BY <1>1 DEF StoreOK, Stores
<1>3. None \notin Owners
  BY NoneIsNothing
<1>4. CASE ok
  BY <1>2, <1>4 DEF StoreOK
<1>5. CASE ~ok
  BY <1>2, <1>3, <1>5 DEF StoreOK
<1> QED BY <1>4, <1>5

\* What the storage may hold after the store wrote the entries of one owner.
Written(t, s) == t.disk \in {None, s.disk, [owner |-> t.owner, entries |-> t.entries]}

LEMMA PersistFacts ==
    ASSUME NEW s, StoreOK(s), s.owner \in Owners, NEW r \in Persist(s)
    PROVE  /\ StoreOK(r.s) /\ r.s.owner = s.owner /\ r.s.active = s.active /\ r.s.entries = s.entries
           /\ Written(r.s, s)
           /\ r.ok => r.s.disk = [owner |-> s.owner, entries |-> s.entries]
<1>1. PICK t \in (IF s.purgePending THEN EraseStorage(s) ELSE {s}) :
         r \in (IF t.purgePending
                THEN {[ok |-> FALSE, s |-> t]}
                ELSE {[ok |-> ok, s |-> IF ok THEN [t EXCEPT !.disk = [owner |-> t.owner, entries |-> t.entries]]
                                              ELSE t] : ok \in Flip})
  BY DEF Persist
<1>2. /\ StoreOK(t) /\ t.owner = s.owner /\ t.active = s.active /\ t.entries = s.entries
      /\ t.disk \in {None, s.disk}
  BY <1>1, EraseFacts
<1>3. CASE r = [ok |-> FALSE, s |-> t]
  BY <1>2, <1>3 DEF Written
<1>4. CASE r = [ok |-> TRUE, s |-> [t EXCEPT !.disk = [owner |-> t.owner, entries |-> t.entries]]]
           /\ ~t.purgePending
  <2>1. [owner |-> t.owner, entries |-> t.entries] \in Disks
    BY <1>2 DEF StoreOK, Stores, Disks
  <2>2. /\ r.s.owner = s.owner /\ r.s.active = s.active /\ r.s.entries = s.entries
        /\ r.s.purgePending = t.purgePending /\ r.s.disk = [owner |-> s.owner, entries |-> s.entries]
        /\ r.s \in Stores
    BY <1>2, <1>4, <2>1 DEF StoreOK, Stores
  <2>3. StoreOK(r.s)
    BY <1>2, <1>4, <2>2 DEF StoreOK
  <2> QED BY <2>2, <2>3 DEF Written
<1>5. \/ r = [ok |-> FALSE, s |-> t]
      \/ r = [ok |-> TRUE, s |-> [t EXCEPT !.disk = [owner |-> t.owner, entries |-> t.entries]]]
         /\ ~t.purgePending
  BY <1>1 DEF Flip
<1> QED BY <1>3, <1>4, <1>5

\* A store may take the entry e of the form k, or drop it.
Enters(s, k, e) ==
    e # None => /\ e \in Entries /\ e.home = s.owner /\ e.version = e.base /\ ~e.purged
                /\ Cardinality({j \in Keys \ {k} : s.entries[j] # None}) < MaxEntries

Entered(t, s, k, e) ==
    /\ StoreOK(t) /\ t.owner = s.owner /\ t.active = s.active /\ t.disk = s.disk
    /\ t.entries = [s.entries EXCEPT ![k] = e]

LEMMA EntryFacts ==
    ASSUME NEW s, StoreOK(s), NEW k \in Keys, NEW e, Enters(s, k, e)
    PROVE  Entered([s EXCEPT !.entries[k] = e], s, k, e)
<1>1. PICK t : t = [s EXCEPT !.entries[k] = e]
  OBVIOUS
<1>2. e \in Entries \cup {None}
  BY DEF Enters
<1>3. /\ t.owner = s.owner /\ t.active = s.active /\ t.disk = s.disk /\ t.purgePending = s.purgePending
      /\ t.entries = [s.entries EXCEPT ![k] = e] /\ t \in Stores
  BY <1>1, <1>2 DEF StoreOK, Stores
<1>4. OfOwner([s.entries EXCEPT ![k] = e], s.owner)
  <2>1. s.entries \in [Keys -> Entries \cup {None}] /\ s.owner \in Owners \cup {None}
    BY DEF StoreOK, Stores
  <2> QED BY <2>1, Counted DEF StoreOK, Enters
<1>5. \A j \in Keys : t.entries[j] # None => ~t.entries[j].purged
  BY <1>3 DEF StoreOK, Stores, Enters
<1>6. StoreOK(t)
  BY <1>3, <1>4, <1>5 DEF StoreOK
<1> QED BY <1>1, <1>3, <1>6 DEF Entered

Saved(r, s, k, e) ==
    /\ StoreOK(r.s) /\ r.s.owner = s.owner /\ r.s.active = s.active
    /\ \/ r.s = s /\ ~r.ok /\ s.entries[k] = None
       \/ r.s.entries = [s.entries EXCEPT ![k] = e]
    /\ Written(r.s, s)
    /\ r.ok => r.s.disk = [owner |-> s.owner, entries |-> r.s.entries]

LEMMA SaveFacts ==
    ASSUME NEW s, StoreOK(s), s.owner \in Owners, NEW k \in Keys, NEW e \in Entries,
           e.home = s.owner, e.version = e.base, ~e.purged, NEW r \in Save(s, k, e)
    PROVE  Saved(r, s, k, e)
<1>1. CASE Cardinality({j \in Keys \ {k} : s.entries[j] # None}) >= MaxEntries
  <2>1. r = [ok |-> FALSE, s |-> s]
    BY <1>1 DEF Save
  <2>2. s.entries[k] = None
    <3>1. s.entries \in [Keys -> Entries \cup {None}] /\ OfOwner(s.entries, s.owner)
      BY DEF StoreOK, Stores
    <3>2. Cardinality({j \in Keys \ {k} : s.entries[j] # None}) \in Nat /\ MaxEntries \in Nat
      BY Finite, DraftsAssumption
    <3>3. s.entries[k] # None => Cardinality({j \in Keys \ {k} : s.entries[j] # None}) < MaxEntries
      BY <3>1, Counted
    <3> QED BY <1>1, <3>2, <3>3
  <2> QED BY <2>1, <2>2 DEF Written, Saved
<1>2. CASE ~(Cardinality({j \in Keys \ {k} : s.entries[j] # None}) >= MaxEntries)
  <2>1. PICK t : t = [s EXCEPT !.entries[k] = e]
    OBVIOUS
  <2>2. r \in Persist(t)
    BY <1>2, <2>1 DEF Save
  <2>3. Cardinality({j \in Keys \ {k} : s.entries[j] # None}) < MaxEntries
    <3>1. Cardinality({j \in Keys \ {k} : s.entries[j] # None}) \in Nat /\ MaxEntries \in Nat
      BY Finite, DraftsAssumption
    <3> QED BY <1>2, <3>1
  <2>4. /\ StoreOK(t) /\ t.owner = s.owner /\ t.active = s.active /\ t.disk = s.disk
        /\ t.entries = [s.entries EXCEPT ![k] = e]
    <3>1. Enters(s, k, e)
      BY <2>3 DEF Enters
    <3> QED BY <2>1, <3>1, EntryFacts DEF Entered
  <2>5. t.owner \in Owners
    BY <2>4
  <2>6. /\ StoreOK(r.s) /\ r.s.owner = t.owner /\ r.s.active = t.active /\ r.s.entries = t.entries
        /\ Written(r.s, t)
        /\ r.ok => r.s.disk = [owner |-> t.owner, entries |-> t.entries]
    BY <2>2, <2>4, <2>5, PersistFacts
  <2> QED BY <2>4, <2>6 DEF Written, Saved
<1> QED BY <1>1, <1>2

Prepared(r, s, k, e) ==
    /\ StoreOK(r.s) /\ r.s.owner = s.owner /\ r.s.active = s.active
    /\ \/ r.s.entries = s.entries /\ s.entries[k] = None
       \/ r.s.entries = [s.entries EXCEPT ![k] = [e EXCEPT !.uncertain = TRUE]]
    /\ Written(r.s, s)
    /\ r.ok => r.s.disk \in {None, [owner |-> s.owner, entries |-> r.s.entries]}

LEMMA PrepareFacts ==
    ASSUME NEW s, StoreOK(s), s.owner \in Owners, NEW k \in Keys, NEW e \in Entries,
           e.home = s.owner, e.version = e.base, ~e.purged, NEW r \in PrepareMutation(s, k, e)
    PROVE  Prepared(r, s, k, e)
<1>1. PICK u : u = [e EXCEPT !.uncertain = TRUE]
  OBVIOUS
<1>2. u \in Entries /\ u.home = s.owner /\ u.version = u.base /\ ~u.purged
  BY <1>1 DEF Entries
<1>3. PICK saved \in Save(s, k, u) :
         r \in (IF saved.ok THEN {saved} ELSE {[ok |-> ~t.purgePending, s |-> t] : t \in EraseStorage(saved.s)})
  BY <1>1 DEF PrepareMutation
<1>4. /\ StoreOK(saved.s) /\ saved.s.owner = s.owner /\ saved.s.active = s.active
      /\ \/ saved.s = s /\ ~saved.ok /\ s.entries[k] = None
         \/ saved.s.entries = [s.entries EXCEPT ![k] = u]
      /\ Written(saved.s, s)
      /\ saved.ok => saved.s.disk = [owner |-> s.owner, entries |-> saved.s.entries]
  BY <1>2, <1>3, SaveFacts DEF Saved
<1>5. CASE saved.ok
  BY <1>1, <1>3, <1>4, <1>5 DEF Prepared
<1>6. CASE ~saved.ok
  <2>1. PICK t \in EraseStorage(saved.s) : r = [ok |-> ~t.purgePending, s |-> t]
    BY <1>3, <1>6
  <2>2. /\ StoreOK(t) /\ t.owner = saved.s.owner /\ t.active = saved.s.active /\ t.entries = saved.s.entries
        /\ t.disk = None \/ t.disk = saved.s.disk
        /\ ~t.purgePending => t.disk = None
    BY <1>4, EraseFacts
  <2> QED BY <1>1, <1>4, <2>1, <2>2 DEF Written, Prepared
<1> QED BY <1>5, <1>6

LEMMA SetUncertainFacts ==
    ASSUME NEW s, StoreOK(s), s.owner \in Owners, NEW k \in Keys, NEW u \in BOOLEAN,
           NEW t \in SetUncertain(s, k, u)
    PROVE  /\ StoreOK(t) /\ t.owner = s.owner /\ t.active = s.active
           /\ IF s.entries[k] = None THEN t.entries = s.entries
              ELSE t.entries = [s.entries EXCEPT ![k] = [s.entries[k] EXCEPT !.uncertain = u]]
           /\ Written(t, s)
<1>1. PICK marked : marked = IF s.entries[k] = None THEN s ELSE [s EXCEPT !.entries[k].uncertain = u]
  OBVIOUS
<1>2. PICK r \in Persist(marked) : t = r.s
  BY <1>1 DEF SetUncertain
<1>3. /\ StoreOK(marked) /\ marked.owner = s.owner /\ marked.active = s.active /\ marked.disk = s.disk
      /\ IF s.entries[k] = None THEN marked.entries = s.entries
         ELSE marked.entries = [s.entries EXCEPT ![k] = [s.entries[k] EXCEPT !.uncertain = u]]
  <2>1. CASE s.entries[k] = None
    BY <1>1, <2>1
  <2>2. CASE s.entries[k] # None
    <3>1. PICK e : e = [s.entries[k] EXCEPT !.uncertain = u]
      OBVIOUS
    <3>2. s.entries[k] \in Entries /\ s.entries \in [Keys -> Entries \cup {None}] /\ OfOwner(s.entries, s.owner)
      BY <2>2 DEF StoreOK, Stores
    <3>3. e \in Entries /\ e.home = s.owner /\ e.version = e.base /\ ~e.purged
      BY <2>2, <3>1, <3>2 DEF StoreOK, OfOwner, Entries
    <3>4. marked = [s EXCEPT !.entries[k] = e]
      BY <1>1, <2>2, <3>1 DEF StoreOK, Stores
    <3>5. Cardinality({j \in Keys \ {k} : s.entries[j] # None}) < MaxEntries
      BY <2>2, <3>2, Counted
    <3>6. Enters(s, k, e)
      BY <3>3, <3>5 DEF Enters
    <3>7. /\ StoreOK(marked) /\ marked.owner = s.owner /\ marked.active = s.active /\ marked.disk = s.disk
          /\ marked.entries = [s.entries EXCEPT ![k] = e]
      BY <3>4, <3>6, EntryFacts DEF Entered
    <3> QED BY <2>2, <3>1, <3>7
  <2> QED BY <2>1, <2>2
<1> QED BY <1>2, <1>3, PersistFacts DEF Written

LEMMA RemoveFacts ==
    ASSUME NEW s, StoreOK(s), s.owner \in Owners, NEW k \in Keys, NEW t \in Remove(s, k)
    PROVE  /\ StoreOK(t) /\ t.owner = s.owner /\ t.active = s.active
           /\ t.entries = [s.entries EXCEPT ![k] = None]
           /\ Written(t, s)
<1>1. PICK u : u = [s EXCEPT !.entries[k] = None]
  OBVIOUS
<1>2. PICK r \in Persist(u) : t \in (IF r.ok THEN {r.s} ELSE EraseStorage(r.s))
  BY <1>1 DEF Remove
<1>3. /\ StoreOK(u) /\ u.owner = s.owner /\ u.active = s.active /\ u.disk = s.disk
      /\ u.entries = [s.entries EXCEPT ![k] = None]
  <2>1. Enters(s, k, None)
    BY DEF Enters
  <2> QED BY <1>1, <2>1, EntryFacts DEF Entered
<1>4. /\ StoreOK(r.s) /\ r.s.owner = s.owner /\ r.s.active = s.active /\ r.s.entries = u.entries
      /\ Written(r.s, u)
  BY <1>3, PersistFacts
<1>5. CASE t = r.s
  BY <1>3, <1>4, <1>5 DEF Written
<1>6. CASE t \in EraseStorage(r.s)
  BY <1>3, <1>4, <1>6, EraseFacts DEF Written
<1> QED BY <1>2, <1>5, <1>6

----------------------------------------------------------------------------
(* The copies of a form, and how they are offered.                         *)

LEMMA OfferFacts ==
    ASSUME NEW s, NEW slot
    PROVE  /\ Offer(s, slot) \subseteq {"unsent", "uncertain"}
           /\ "unsent" \in Offer(s, slot) <=> \E e \in Copies(s, slot) : ~e.uncertain
           /\ "uncertain" \in Offer(s, slot) <=> \E e \in Copies(s, slot) : e.uncertain
BY DEF Offer

\* A store whose copies of a form are copies of it in another one, with the
\* mark of a purge perhaps, offers no more of it.
LEMMA FewerOffers ==
    ASSUME NEW s, NEW t, NEW slot,
           \A e \in Copies(t, slot) : \E d \in Copies(s, slot) : d.uncertain = e.uncertain
    PROVE  Offer(t, slot) \subseteq Offer(s, slot)
BY DEF Offer

\* A method that writes one entry of the owner being served leaves of every
\* other form the copies it had, or some of them.
Touched(t, s, k) ==
    /\ t.owner = s.owner
    /\ \A j \in Keys \ {k} : t.entries[j] = s.entries[j]
    /\ \/ t.disk = None
       \/ t.disk.owner = s.owner /\ \A j \in Keys \ {k} : t.disk.entries[j] = s.entries[j]
       \/ /\ s.disk # None /\ t.disk.owner = s.disk.owner
          /\ \A j \in Keys \ {k} : t.disk.entries[j] = s.disk.entries[j]
          /\ t.disk.entries[k] \in {None, s.disk.entries[k]}

LEMMA OtherCopies ==
    ASSUME NEW s, NEW t, NEW k \in Keys, Touched(t, s, k),
           NEW slot \in Slots, slot # <<s.owner, k>>
    PROVE  Copies(t, slot) \subseteq Copies(s, slot)
<1>1. /\ slot[1] \in Owners /\ slot[2] \in Keys
      /\ slot[1] = s.owner => slot[2] # k
  BY DEF Slots
<1> SUFFICES ASSUME NEW e \in Copies(t, slot) PROVE e \in Copies(s, slot)
  OBVIOUS
<1>2. CASE t.owner = slot[1] /\ e = t.entries[slot[2]]
  BY <1>1, <1>2 DEF Copies, Touched
<1>3. CASE t.disk # None /\ t.disk.owner = slot[1] /\ e = t.disk.entries[slot[2]]
  BY <1>1, <1>3 DEF Copies, Touched
<1> QED BY <1>2, <1>3 DEF Copies

----------------------------------------------------------------------------
(* The invariant.                                                          *)

\* A step that writes one form, and one entry of the owner being served.
LEMMA OneFormStep ==
    ASSUME DraftsInv, NEW k \in Keys, NEW f, f \in Forms \cup {None}, FormOK(f, store),
           forms' = [forms EXCEPT ![k] = f],
           StoreOK(store'), Touched(store', store, k), store'.active = store.active,
           srv' \in [Places -> [Keys -> 0..MaxVersion]],
           unknown' \subseteq unknown \cup {<<store.owner, k>>},
           \A slot \in unknown' : Left(store', slot),
           <<store.owner, k>> \in unknown' =>
              store.owner \in Owners /\ UnknownOK(store', f, <<store.owner, k>>)
    PROVE  DraftsInv'
<1>1. store'.owner = store.owner
  BY DEF Touched
<1>2. forms' \in [Keys -> Forms \cup {None}] /\ \A j \in Keys : FormOK(forms'[j], store')
  <2>1. forms \in [Keys -> Forms \cup {None}] /\ \A j \in Keys : FormOK(forms[j], store)
    BY DEF DraftsInv
  <2>2. \A g : FormOK(g, store) => FormOK(g, store')
    BY <1>1 DEF FormOK
  <2>3. \A j \in Keys : forms'[j] = IF j = k THEN f ELSE forms[j]
    BY <2>1
  <2>4. forms' \in [Keys -> Forms \cup {None}]
    BY <2>1
  <2>5. ASSUME NEW j \in Keys PROVE FormOK(forms'[j], store')
    BY <2>1, <2>2, <2>3
  <2> QED BY <2>4, <2>5
<1>3. unknown' \subseteq Slots
  <2>1. unknown \subseteq Slots
    BY DEF DraftsInv
  <2>2. <<store.owner, k>> \in unknown' => <<store.owner, k>> \in Slots
    BY DEF Slots
  <2> QED BY <2>1, <2>2
<1>4. ASSUME NEW slot \in unknown' PROVE UnknownOK(store', forms'[slot[2]], slot)
  <2>1. CASE slot = <<store.owner, k>>
    BY <1>4, <2>1 DEF DraftsInv
  <2>2. CASE slot # <<store.owner, k>>
    <3>1. /\ slot \in Slots /\ slot \in unknown /\ slot[1] \in Owners /\ slot[2] \in Keys
          /\ slot[1] = store.owner => slot[2] # k
          /\ UnknownOK(store, forms[slot[2]], slot)
      BY <1>3, <1>4, <2>2 DEF DraftsInv, Slots
    <3>2. Copies(store', slot) \subseteq Copies(store, slot)
      BY <2>2, <3>1, OtherCopies
    <3>3. "unsent" \notin Offer(store', slot)
      BY <3>1, <3>2, OfferFacts DEF UnknownOK
    <3>4. Left(store', slot)
      BY <1>4
    <3>5. slot[1] = store.owner =>
             /\ store'.entries[slot[2]] # None
             /\ store'.disk = None \/ store'.disk.owner = store.owner
             /\ forms'[slot[2]] = forms[slot[2]]
      BY <3>1 DEF UnknownOK, Touched, DraftsInv
    <3> QED BY <1>1, <3>1, <3>3, <3>4, <3>5 DEF UnknownOK
  <2> QED BY <2>1, <2>2
<1>5. /\ StoreOK(store') /\ forms' \in [Keys -> Forms \cup {None}] /\ \A j \in Keys : FormOK(forms'[j], store')
      /\ srv' \in [Places -> [Keys -> 0..MaxVersion]]
      /\ unknown' \subseteq Slots
      /\ \A slot \in unknown' : UnknownOK(store', forms'[slot[2]], slot)
  BY <1>2, <1>3, <1>4
<1> QED BY <1>5 DEF DraftsInv

\* A step of the identity or of the tab: the leases that outlive it are those
\* of the owner who is still served.
LEMMA OwnerStep ==
    ASSUME DraftsInv, StoreOK(store'),
           forms' \in [Keys -> Forms \cup {None}], \A k \in Keys : FormOK(forms'[k], store'),
           \A k \in Keys : forms'[k] # None /\ forms'[k].leased =>
                              forms'[k] = forms[k] /\ store'.owner = store.owner,
           UNCHANGED srv, unknown' \subseteq unknown,
           \A slot \in unknown' :
              /\ Offer(store', slot) \subseteq Offer(store, slot)
              /\ Left(store', slot)
              /\ slot[1] = store'.owner => /\ store'.entries[slot[2]] # None
                                           /\ store'.disk = None \/ store'.disk.owner = store'.owner
    PROVE  DraftsInv'
<1>1. unknown' \subseteq Slots /\ srv' \in [Places -> [Keys -> 0..MaxVersion]]
  BY DEF DraftsInv
<1>2. ASSUME NEW slot \in unknown' PROVE UnknownOK(store', forms'[slot[2]], slot)
  <2>1. UnknownOK(store, forms[slot[2]], slot) /\ slot[2] \in Keys
    BY <1>2 DEF DraftsInv, Slots
  <2> QED BY <1>2, <2>1 DEF UnknownOK
<1> QED BY <1>1, <1>2 DEF DraftsInv

LEMMA EndedLeases ==
    ASSUME DraftsInv, NEW s, forms' = EndLeases(forms)
    PROVE  /\ forms' \in [Keys -> Forms \cup {None}]
           /\ \A k \in Keys : FormOK(forms'[k], s)
           /\ \A k \in Keys : forms'[k] = None \/ ~forms'[k].leased
<1>1. None \notin Forms
  BY NoneIsNothing
<1>2. ASSUME NEW k \in Keys, forms[k] # None
      PROVE  /\ forms'[k] \in Forms /\ forms'[k] = [forms[k] EXCEPT !.leased = FALSE]
             /\ ~forms'[k].leased /\ forms'[k].version = forms[k].version /\ forms'[k].base = forms[k].base
             /\ forms'[k].pending = forms[k].pending /\ forms'[k].uncertain = forms[k].uncertain
             /\ forms'[k].candidate = forms[k].candidate
  <2>1. PICK f \in Forms : f = forms[k]
    BY <1>2 DEF DraftsInv
  <2>2. PICK g : g = [f EXCEPT !.leased = FALSE]
    OBVIOUS
  <2>3. /\ g \in Forms /\ ~g.leased /\ g.version = f.version /\ g.base = f.base /\ g.pending = f.pending
        /\ g.uncertain = f.uncertain /\ g.candidate = f.candidate
    BY <2>1, <2>2 DEF Forms
  <2>4. forms'[k] = g
    BY <1>2, <2>1, <2>2 DEF EndLeases
  <2> QED BY <2>1, <2>2, <2>3, <2>4
<1>3. ASSUME NEW k \in Keys, forms[k] = None PROVE forms'[k] = None
  BY <1>3 DEF EndLeases
<1>4. \A k \in Keys : FormOK(forms'[k], s)
  BY <1>2, <1>3 DEF FormOK, DraftsInv
<1>5. forms' \in [Keys -> Forms \cup {None}]
  BY <1>2, <1>3 DEF EndLeases
<1> QED BY <1>2, <1>3, <1>4, <1>5

----------------------------------------------------------------------------
(* What the methods of the store do to the copies.                         *)

LEMMA WrittenTouches ==
    ASSUME NEW s, StoreOK(s), NEW t, NEW k \in Keys, NEW e,
           t.owner = s.owner, t.entries \in {s.entries, [s.entries EXCEPT ![k] = e]}, Written(t, s)
    PROVE  Touched(t, s, k)
<1>1. s.entries \in [Keys -> Entries \cup {None}]
  BY DEF StoreOK, Stores
<1>2. \A j \in Keys \ {k} : t.entries[j] = s.entries[j]
  BY <1>1
<1>3. CASE t.disk = None
  BY <1>2, <1>3 DEF Touched
<1>4. CASE t.disk = s.disk /\ s.disk # None
  BY <1>2, <1>4 DEF Touched
<1>5. CASE t.disk = [owner |-> t.owner, entries |-> t.entries]
  BY <1>2, <1>5 DEF Touched
<1> QED BY <1>3, <1>4, <1>5 DEF Written

LEMMA TouchedTwice ==
    ASSUME NEW s, NEW t, NEW u, NEW k \in Keys, Touched(t, s, k), Touched(u, t, k)
    PROVE  Touched(u, s, k)
<1>1. u.owner = s.owner /\ \A j \in Keys \ {k} : u.entries[j] = s.entries[j]
  BY DEF Touched
<1>2. CASE u.disk = None
  BY <1>1, <1>2 DEF Touched
<1>3. CASE u.disk.owner = t.owner /\ \A j \in Keys \ {k} : u.disk.entries[j] = t.entries[j]
  BY <1>1, <1>3 DEF Touched
<1>4. CASE /\ t.disk # None /\ u.disk.owner = t.disk.owner
           /\ \A j \in Keys \ {k} : u.disk.entries[j] = t.disk.entries[j]
           /\ u.disk.entries[k] \in {None, t.disk.entries[k]}
  BY <1>1, <1>4 DEF Touched
<1> QED BY <1>2, <1>3, <1>4 DEF Touched

\* The forms whose request is under way change nothing that is kept.
PendingOnly(t, s) == \E p \in SUBSET Keys : t = [s EXCEPT !.pending = p]

LEMMA PendingFacts ==
    ASSUME NEW s, StoreOK(s), NEW t, PendingOnly(t, s)
    PROVE  /\ StoreOK(t) /\ t.owner = s.owner /\ t.active = s.active /\ t.entries = s.entries /\ t.disk = s.disk
           /\ \A slot : Copies(t, slot) = Copies(s, slot)
           /\ \A k \in Keys : Touched(t, s, k)
<1>1. /\ t \in Stores /\ t.owner = s.owner /\ t.active = s.active /\ t.entries = s.entries /\ t.disk = s.disk
      /\ t.purgePending = s.purgePending
  BY DEF StoreOK, Stores, PendingOnly
<1>2. StoreOK(t)
  BY <1>1 DEF StoreOK
<1>3. \A slot : Copies(t, slot) = Copies(s, slot)
  BY <1>1 DEF Copies
<1>4. \A k \in Keys : Touched(t, s, k)
  BY <1>1 DEF Touched
<1> QED BY <1>1, <1>2, <1>3, <1>4

\* What a form with a live lease would write.
LEMMA EntryOfFacts ==
    ASSUME NEW s, NEW f \in Forms, FormOK(f, s), f.leased
    PROVE  /\ EntryOf(f) \in Entries /\ EntryOf(f).home = s.owner /\ EntryOf(f).version = EntryOf(f).base
           /\ ~EntryOf(f).purged /\ EntryOf(f).uncertain = f.uncertain
           /\ s.active /\ s.owner \in Owners
<1>1. f # None
  BY NoneIsNothing
<1>2. /\ f.home \in Owners /\ f.version \in 0..MaxVersion /\ f.base \in 0..MaxVersion
      /\ f.access \in 0..MaxAccess /\ f.uncertain \in BOOLEAN
  BY DEF Forms
<1> QED BY <1>1, <1>2 DEF FormOK, EntryOf, Entries

----------------------------------------------------------------------------
(* The steps of the vault.                                                 *)

SameServed == store'.owner = store.owner /\ store'.active = store.active

Fewer(S) == /\ \A slot \in Slots \ S : Offer(store', slot) \subseteq Offer(store, slot)
            /\ unknown' \subseteq unknown \cup S

VaultStep == [Vault!VaultNext]_(Vault!vaultVars)

LEMMA VaultState ==
    /\ Vault!Slots = Slots /\ Vault!Offers = SUBSET {"unsent", "uncertain"}
    /\ \A slot \in Slots :
          [s \in Owners \X Keys |-> {IF e.uncertain THEN "uncertain" ELSE "unsent" : e \in Copies(store, s)}][slot]
            = Offer(store, slot)
    /\ \A slot \in Slots :
          [s \in Owners \X Keys |-> {IF e.uncertain THEN "uncertain" ELSE "unsent" : e \in Copies(store', s)}][slot]
            = Offer(store', slot)
BY DEF Vault!Slots, Vault!Offers, Slots, Offer

LEMMA FewerIsLess == ASSUME NEW S, Fewer(S) PROVE Vault!OnlyLess(S)
BY VaultState, OfferFacts DEF Vault!OnlyLess, Fewer, Slots

\* Nothing that the vault sees changes.
LEMMA VaultStays ==
    ASSUME SameServed, UNCHANGED unknown, \A slot \in Slots : Offer(store', slot) = Offer(store, slot)
    PROVE  VaultStep
<1>1. \A slot \in Slots :
         {IF e.uncertain THEN "uncertain" ELSE "unsent" : e \in Copies(store', slot)}
           = {IF e.uncertain THEN "uncertain" ELSE "unsent" : e \in Copies(store, slot)}
  BY DEF Offer
<1> QED BY <1>1 DEF VaultStep, Vault!vaultVars, SameServed, Slots

LEMMA VaultServes ==
    ASSUME NEW o \in Owners \cup {None}, o = IF store'.active THEN store'.owner ELSE None, Fewer({})
    PROVE  VaultStep
<1>1. Vault!Serve(o)
  BY FewerIsLess DEF Vault!Serve
<1> QED BY <1>1 DEF VaultStep, Vault!VaultNext

LEMMA VaultForgets ==
    ASSUME SameServed, Fewer({})
    PROVE  VaultStep
<1>1. Vault!Forget
  BY FewerIsLess DEF Vault!Forget, SameServed
<1> QED BY <1>1 DEF VaultStep, Vault!VaultNext

LEMMA VaultKeeps ==
    ASSUME SameServed, store.active, store.owner \in Owners, NEW k \in Keys,
           Fewer({<<store.owner, k>>}), unknown' \subseteq unknown,
           <<store.owner, k>> \in unknown => "unsent" \notin Offer(store', <<store.owner, k>>)
    PROVE  VaultStep
<1>1. <<store.owner, k>> \in Slots
  BY DEF Slots
<1>2. Vault!Keep(k)
  BY <1>1, FewerIsLess, VaultState, OfferFacts DEF Vault!Keep, SameServed, Vault!OnlyLess
<1> QED BY <1>2 DEF VaultStep, Vault!VaultNext

LEMMA VaultSubmits ==
    ASSUME SameServed, store.active, store.owner \in Owners, NEW k \in Keys,
           Fewer({<<store.owner, k>>}), "unsent" \notin Offer(store', <<store.owner, k>>)
    PROVE  VaultStep
<1>1. <<store.owner, k>> \in Slots
  BY DEF Slots
<1>2. Offer(store', <<store.owner, k>>) \subseteq {"uncertain"}
  BY OfferFacts
<1>3. Vault!Submit(k)
  BY <1>1, <1>2, FewerIsLess, VaultState DEF Vault!Submit, SameServed, Vault!OnlyLess
<1> QED BY <1>3 DEF VaultStep, Vault!VaultNext

LEMMA VaultResolves ==
    ASSUME SameServed, store.active, store.owner \in Owners, NEW k \in Keys,
           Fewer({<<store.owner, k>>}), unknown' = unknown \ {<<store.owner, k>>}
    PROVE  VaultStep
<1>1. <<store.owner, k>> \in Slots
  BY DEF Slots
<1>2. Vault!Resolve(k)
  BY <1>1, FewerIsLess, VaultState DEF Vault!Resolve, SameServed, Vault!OnlyLess, Fewer, Slots
<1> QED BY <1>2 DEF VaultStep, Vault!VaultNext

----------------------------------------------------------------------------
(* The kinds of steps a form takes.                                        *)

LEMMA OtherOffers ==
    ASSUME NEW k \in Keys, Touched(store', store, k), unknown' \subseteq unknown \cup {<<store.owner, k>>}
    PROVE  Fewer({<<store.owner, k>>})
<1>1. ASSUME NEW slot \in Slots, slot # <<store.owner, k>>
      PROVE  Offer(store', slot) \subseteq Offer(store, slot)
  <2>1. Copies(store', slot) \subseteq Copies(store, slot)
    BY <1>1, OtherCopies
  <2> QED BY <2>1, FewerOffers
<1> QED BY <1>1 DEF Fewer

\* A step of the page alone: the store keeps what it has.
LEMMA PageStep ==
    ASSUME DraftsInv, NEW k \in Keys, NEW f, f \in Forms \cup {None}, FormOK(f, store),
           forms' = [forms EXCEPT ![k] = f],
           store' = store \/ PendingOnly(store', store),
           UNCHANGED unknown, srv' \in [Places -> [Keys -> 0..MaxVersion]],
           <<store.owner, k>> \in unknown /\ f # None /\ f.leased /\ ~f.candidate => f.uncertain
    PROVE  DraftsInv' /\ VaultStep /\ SameServed
<1>1. StoreOK(store)
  BY DEF DraftsInv
<1>2. /\ StoreOK(store') /\ Touched(store', store, k) /\ SameServed /\ store'.entries = store.entries
      /\ store'.disk = store.disk /\ \A slot : Copies(store', slot) = Copies(store, slot)
  <2>1. CASE store' = store
    BY <1>1, <2>1 DEF Touched, SameServed
  <2>2. CASE PendingOnly(store', store)
    BY <1>1, <2>2, PendingFacts DEF SameServed
  <2> QED BY <2>1, <2>2
<1>3. \A slot : Offer(store', slot) = Offer(store, slot) /\ Left(store', slot) = Left(store, slot)
  BY <1>2 DEF Offer, Left
<1>4. \A slot \in unknown : slot \in Slots /\ UnknownOK(store, forms[slot[2]], slot)
  BY DEF DraftsInv
<1>5. ASSUME <<store.owner, k>> \in unknown
      PROVE  store.owner \in Owners /\ UnknownOK(store', f, <<store.owner, k>>)
  <2>1. store.owner \in Owners
    BY <1>4, <1>5 DEF Slots
  <2>2. UnknownOK(store, forms[k], <<store.owner, k>>)
    BY <1>4, <1>5
  <2> QED BY <1>2, <1>3, <1>5, <2>1, <2>2 DEF UnknownOK, SameServed
<1>6. \A slot \in unknown' : Left(store', slot)
  BY <1>3, <1>4 DEF UnknownOK
<1>7. DraftsInv'
  <2>1. store'.active = store.active /\ unknown' \subseteq unknown \cup {<<store.owner, k>>}
    BY <1>2 DEF SameServed
  <2>2. <<store.owner, k>> \in unknown' =>
           store.owner \in Owners /\ UnknownOK(store', f, <<store.owner, k>>)
    BY <1>5
  <2> QED BY <1>2, <1>6, <2>1, <2>2, OneFormStep
<1>8. VaultStep
  BY <1>2, <1>3, VaultStays
<1> QED BY <1>2, <1>7, <1>8

\* The server's answer, or the user's: the fate of the form is known.
LEMMA ResolvedStep ==
    ASSUME DraftsInv, NEW k \in Keys, NEW f, f \in Forms \cup {None}, FormOK(f, store),
           forms' = [forms EXCEPT ![k] = f], store.active,
           NEW s, StoreOK(s), Touched(s, store, k), s.active = store.active,
           SetStore(s, unknown \ {<<store.owner, k>>}),
           srv' \in [Places -> [Keys -> 0..MaxVersion]]
    PROVE  DraftsInv' /\ VaultStep /\ SameServed
<1>1. /\ store' = s /\ unknown' = {slot \in unknown \ {<<store.owner, k>>} : Left(store', slot)}
      /\ store.owner \in Owners
  BY DEF SetStore, Left, DraftsInv, StoreOK
<1>2. SameServed
  BY <1>1 DEF SameServed, Touched
<1>3. Fewer({<<store.owner, k>>})
  BY <1>1, OtherOffers
<1>4. DraftsInv'
  <2>1. /\ unknown' \subseteq unknown \cup {<<store.owner, k>>} /\ <<store.owner, k>> \notin unknown'
        /\ \A slot \in unknown' : Left(store', slot)
    BY <1>1
  <2> QED BY <1>1, <2>1, OneFormStep
<1>5. CASE <<store.owner, k>> \notin unknown
  <2>1. unknown' \subseteq unknown
    BY <1>1
  <2> QED BY <1>1, <1>2, <1>3, <1>4, <1>5, <2>1, VaultKeeps DEF Fewer
<1>6. CASE <<store.owner, k>> \in unknown
  <2>1. store.disk = None \/ store.disk.owner = store.owner
    BY <1>6 DEF DraftsInv, UnknownOK
  <2>2. ASSUME NEW slot \in unknown, slot # <<store.owner, k>> PROVE Left(store', slot)
    <3>1. slot \in Slots /\ UnknownOK(store, forms[slot[2]], slot)
      BY <2>2 DEF DraftsInv
    <3>2. slot[1] = store.owner
      BY <2>1, <3>1 DEF UnknownOK, Left, Copies
    <3>3. slot[2] \in Keys /\ slot[2] # k
      BY <2>2, <3>1, <3>2 DEF Slots
    <3>4. store'.entries[slot[2]] = store.entries[slot[2]] /\ store.entries[slot[2]] # None
      BY <1>1, <3>1, <3>2, <3>3 DEF Touched, UnknownOK
    <3>5. ~store.entries[slot[2]].purged
      BY <3>3, <3>4 DEF DraftsInv, StoreOK
    <3>6. store.entries[slot[2]] \in Copies(store', slot)
      BY <1>2, <3>2, <3>4 DEF Copies, SameServed
    <3> QED BY <3>5, <3>6 DEF Left
  <2>3. unknown' = unknown \ {<<store.owner, k>>}
    BY <1>1, <2>2
  <2> QED BY <1>1, <1>2, <1>3, <1>4, <2>3, VaultResolves DEF Fewer
<1> QED BY <1>2, <1>4, <1>5, <1>6

----------------------------------------------------------------------------
(* One lemma for each action.                                              *)

LEMMA CurrentTyped ==
    ASSUME DraftsInv, NEW o \in Owners, NEW k \in Keys
    PROVE  Current(o, k) \in 0..MaxVersion
<1>1. o.place \in Places /\ MaxVersion \in Nat /\ srv \in [Places -> [Keys -> 0..MaxVersion]]
  BY DraftsAssumption DEF Places, DraftsInv
<1> QED BY <1>1 DEF Current

LEMMA Bounds == /\ MaxVersion \in Nat /\ NoVersion \in 0..NoVersion /\ 0 \in 0..MaxVersion
                /\ 0..MaxVersion \subseteq 0..NoVersion
BY DraftsAssumption DEF NoVersion

LEMMA OpenStep ==
    ASSUME DraftsInv, NEW k \in Keys, NEW a \in AccessAt(store.owner), Open(k, a)
    PROVE  DraftsInv' /\ VaultStep /\ SameServed
<1> DEFINE v == Current(store.owner, k)
<1>1. PICK f : f = [home |-> store.owner, leased |-> TRUE, candidate |-> store.entries[k] # None,
                    dirty |-> FALSE, pending |-> "no", uncertain |-> FALSE, conflict |-> FALSE,
                    held |-> FALSE, loaded |-> v, version |-> v, base |-> v, seen |-> NoVersion,
                    access |-> a, shown |-> a]
  OBVIOUS
<1>2. store.active /\ store.owner \in Owners
  BY DEF Open, DraftsInv, StoreOK
<1>3. v \in 0..MaxVersion /\ a \in 0..MaxAccess
  <2>1. MaxAccess \in Nat
    BY DraftsAssumption
  <2> QED BY <1>2, <2>1, CurrentTyped DEF AccessAt
<1> HIDE DEF v
<1>4. f \in Forms
  BY <1>1, <1>2, <1>3, Bounds DEF Forms
<1>5. FormOK(f, store)
  BY <1>1, <1>2 DEF FormOK
<1>6. <<store.owner, k>> \in unknown => f.candidate
  <2>1. <<store.owner, k>> \in unknown => UnknownOK(store, forms[k], <<store.owner, k>>)
    BY DEF DraftsInv
  <2> QED BY <1>1, <2>1 DEF UnknownOK
<1>7. /\ forms' = [forms EXCEPT ![k] = f] /\ store' = store /\ UNCHANGED unknown
      /\ srv' \in [Places -> [Keys -> 0..MaxVersion]]
  BY <1>1 DEF Open, SetForm, v, DraftsInv
<1> QED BY <1>4, <1>5, <1>6, <1>7, PageStep

LEMMA RestoreStep ==
    ASSUME DraftsInv, NEW k \in Keys, Restore(k)
    PROVE  DraftsInv' /\ VaultStep /\ SameServed
<1>1. PICK f \in Forms : f = forms[k] /\ FormOK(f, store) /\ f.candidate
  BY DEF Restore, DraftsInv
<1>2. PICK g : g = IF Valid(f) /\ store.entries[k] # None
                   THEN Restored(f, store.entries[k])
                   ELSE [f EXCEPT !.candidate = FALSE]
  OBVIOUS
<1>3. f # None /\ f.pending = "no"
  BY <1>1, NoneIsNothing DEF FormOK, Forms
<1>4. /\ forms' = [forms EXCEPT ![k] = g] /\ store' = store /\ UNCHANGED unknown
      /\ srv' \in [Places -> [Keys -> 0..MaxVersion]]
  BY <1>1, <1>2 DEF Restore, SetForm, DraftsInv
<1>5. CASE Valid(f) /\ store.entries[k] # None
  <2>1. PICK e \in Entries : e = store.entries[k] /\ e.version = e.base
    BY <1>5 DEF DraftsInv, StoreOK, Stores, OfOwner
  <2>2. PICK clash \in BOOLEAN :
           g = [f EXCEPT !.candidate = FALSE, !.dirty = TRUE, !.conflict = clash, !.held = clash,
                         !.uncertain = e.uncertain, !.version = e.version, !.base = e.base, !.access = e.access]
    BY <1>2, <1>5, <2>1 DEF Restored
  <2>3. /\ g \in Forms /\ g.version = e.version /\ g.base = e.base /\ g.pending = "no"
        /\ g.leased = f.leased /\ g.home = f.home /\ g.uncertain = e.uncertain
    BY <1>3, <2>2 DEF Forms, Entries
  <2>4. FormOK(g, store)
    BY <1>1, <1>3, <2>1, <2>3 DEF FormOK
  <2>5. <<store.owner, k>> \in unknown => g.uncertain
    <3>1. <<store.owner, k>> \in unknown => "unsent" \notin Offer(store, <<store.owner, k>>)
      BY DEF DraftsInv, UnknownOK
    <3>2. e \in Copies(store, <<store.owner, k>>)
      BY <1>5, <2>1 DEF Copies
    <3> QED BY <2>3, <3>1, <3>2, OfferFacts
  <2> QED BY <1>4, <2>3, <2>4, <2>5, PageStep
<1>6. CASE ~(Valid(f) /\ store.entries[k] # None)
  <2>1. g = [f EXCEPT !.candidate = FALSE]
    BY <1>2, <1>6
  <2>2. /\ g \in Forms /\ g.version = f.version /\ g.base = f.base /\ g.pending = "no"
        /\ g.leased = f.leased /\ g.home = f.home
    BY <1>3, <2>1 DEF Forms
  <2>3. FormOK(g, store)
    BY <1>1, <1>3, <2>2 DEF FormOK
  <2>4. <<store.owner, k>> \in unknown => ~g.leased
    <3>1. <<store.owner, k>> \in unknown => store.entries[k] # None
      BY DEF DraftsInv, UnknownOK
    <3>2. f.leased => store.active
      BY <1>1, <1>3 DEF FormOK
    <3> QED BY <1>6, <2>2, <3>1, <3>2 DEF Valid
  <2> QED BY <1>4, <2>2, <2>3, <2>4, PageStep
<1> QED BY <1>5, <1>6

\* What a form whose request is over knows of it.
LEMMA KnownFacts ==
    ASSUME DraftsInv, NEW k \in Keys, forms[k] # None
    PROVE  /\ forms[k] \in Forms /\ FormOK(forms[k], store)
           /\ <<store.owner, k>> \in unknown /\ forms[k].leased /\ ~forms[k].candidate => forms[k].uncertain
           /\ Valid(forms[k]) <=> forms[k].leased
           /\ Valid(forms[k]) => store.active /\ store.owner \in Owners
<1>1. forms[k] \in Forms /\ FormOK(forms[k], store)
  BY DEF DraftsInv
<1>2. <<store.owner, k>> \in unknown => UnknownOK(store, forms[k], <<store.owner, k>>)
  BY DEF DraftsInv
<1>3. forms[k].leased \in BOOLEAN /\ StoreOK(store)
  BY <1>1 DEF Forms, DraftsInv
<1> QED BY <1>1, <1>2, <1>3 DEF UnknownOK, FormOK, Valid, StoreOK

\* What the methods that write the entry of one form leave.
Wrote(t, s, k) == StoreOK(t) /\ t.active = s.active /\ t.owner = s.owner /\ Touched(t, s, k)

LEMMA WroteTwice ==
    ASSUME NEW s, NEW t, NEW u, NEW k \in Keys, Wrote(t, s, k), Wrote(u, t, k)
    PROVE  Wrote(u, s, k)
BY TouchedTwice DEF Wrote

LEMMA MethodsWrite ==
    ASSUME NEW s, StoreOK(s), s.owner \in Owners, NEW k \in Keys
    PROVE  /\ \A t : PendingOnly(t, s) => Wrote(t, s, k)
           /\ \A u \in BOOLEAN : \A t \in SetUncertain(s, k, u) : Wrote(t, s, k)
           /\ \A t \in Remove(s, k) : Wrote(t, s, k)
           /\ \A e \in Entries : e.home = s.owner /\ e.version = e.base /\ ~e.purged =>
                \A r \in Save(s, k, e) : Wrote(r.s, s, k)
<1>1. ASSUME NEW t, PendingOnly(t, s) PROVE Wrote(t, s, k)
  BY <1>1, PendingFacts DEF Wrote
<1>2. ASSUME NEW u \in BOOLEAN, NEW t \in SetUncertain(s, k, u) PROVE Wrote(t, s, k)
  <2>1. /\ StoreOK(t) /\ t.owner = s.owner /\ t.active = s.active
        /\ IF s.entries[k] = None THEN t.entries = s.entries
           ELSE t.entries = [s.entries EXCEPT ![k] = [s.entries[k] EXCEPT !.uncertain = u]]
        /\ Written(t, s)
    BY <1>2, SetUncertainFacts
  <2>2. Touched(t, s, k)
    BY <2>1, WrittenTouches
  <2> QED BY <2>1, <2>2 DEF Wrote
<1>3. ASSUME NEW t \in Remove(s, k) PROVE Wrote(t, s, k)
  <2>1. /\ StoreOK(t) /\ t.owner = s.owner /\ t.active = s.active
        /\ t.entries = [s.entries EXCEPT ![k] = None] /\ Written(t, s)
    BY <1>3, RemoveFacts
  <2>2. Touched(t, s, k)
    BY <2>1, WrittenTouches
  <2> QED BY <2>1, <2>2 DEF Wrote
<1>4. ASSUME NEW e \in Entries, e.home = s.owner, e.version = e.base, ~e.purged, NEW r \in Save(s, k, e)
      PROVE  Wrote(r.s, s, k)
  <2>1. /\ StoreOK(r.s) /\ r.s.owner = s.owner /\ r.s.active = s.active
        /\ \/ r.s = s /\ ~r.ok /\ s.entries[k] = None
           \/ r.s.entries = [s.entries EXCEPT ![k] = e]
        /\ Written(r.s, s)
        /\ r.ok => r.s.disk = [owner |-> s.owner, entries |-> r.s.entries]
    BY <1>4, SaveFacts DEF Saved
  <2>2. Touched(r.s, s, k)
    <3>1. PICK t : t = r.s
      OBVIOUS
    <3>2. t.entries \in {s.entries, [s.entries EXCEPT ![k] = e]}
      BY <2>1, <3>1
    <3> QED BY <2>1, <3>1, <3>2, WrittenTouches
  <2> QED BY <2>1, <2>2 DEF Wrote
<1> QED BY <1>1, <1>2, <1>3, <1>4

\* The request of a form is over, in one way or another.
LEMMA OverFacts ==
    ASSUME DraftsInv, NEW k \in Keys
    PROVE  PendingOnly([store EXCEPT !.pending = @ \ {k}], store)
<1>1. store.pending \ {k} \in SUBSET Keys
  BY DEF DraftsInv, StoreOK, Stores
<1> QED BY <1>1 DEF PendingOnly

LEMMA AnswerUnknownStep ==
    ASSUME DraftsInv, NEW k \in Keys, AnswerUnknown(k)
    PROVE  DraftsInv' /\ VaultStep /\ SameServed
<1>1. PICK f \in Forms : f = forms[k] /\ FormOK(f, store) /\ f # None /\ f.pending # "no"
  BY KnownFacts DEF AnswerUnknown, Waiting
<1>2. PICK g : g = [f EXCEPT !.pending = "no"]
  OBVIOUS
<1>3. /\ g \in Forms /\ g.version = f.version /\ g.base = f.base /\ g.pending = "no"
      /\ g.leased = f.leased /\ g.home = f.home /\ g.uncertain = f.uncertain
  BY <1>2 DEF Forms
<1>4. FormOK(g, store) /\ g.uncertain
  BY <1>1, <1>3 DEF FormOK
<1>5. store' = store \/ PendingOnly(store', store)
  BY OverFacts DEF AnswerUnknown
<1>6. forms' = [forms EXCEPT ![k] = g] /\ UNCHANGED unknown /\ srv' \in [Places -> [Keys -> 0..MaxVersion]]
  BY <1>1, <1>2 DEF AnswerUnknown, SetForm, DraftsInv
<1> QED BY <1>3, <1>4, <1>5, <1>6, PageStep

LEMMA LeaveStep ==
    ASSUME DraftsInv, NEW k \in Keys, Leave(k)
    PROVE  DraftsInv' /\ VaultStep /\ SameServed
<1>1. store' = store \/ PendingOnly(store', store)
  BY OverFacts DEF Leave
<1>2. /\ forms' = [forms EXCEPT ![k] = None] /\ UNCHANGED unknown /\ FormOK(None, store)
      /\ srv' \in [Places -> [Keys -> 0..MaxVersion]]
  BY DEF Leave, SetForm, FormOK, DraftsInv
<1> QED BY <1>1, <1>2, PageStep

LEMMA CompareServerStep ==
    ASSUME DraftsInv, "edit" \in Keys, CompareServer
    PROVE  DraftsInv' /\ VaultStep /\ SameServed
<1>1. PICK f \in Forms : /\ f = forms["edit"] /\ FormOK(f, store) /\ f # None
                         /\ <<store.owner, "edit">> \in unknown /\ f.leased /\ ~f.candidate => f.uncertain
  BY KnownFacts DEF CompareServer
<1>2. PICK v \in 0..NoVersion : v = Current(f.home, "edit")
  <2>1. f.home \in Owners
    BY DEF Forms
  <2> QED BY <2>1, CurrentTyped, Bounds
<1>3. PICK g : g = [f EXCEPT !.seen = v]
  OBVIOUS
<1>4. /\ g \in Forms /\ g.version = f.version /\ g.base = f.base /\ g.pending = f.pending
      /\ g.leased = f.leased /\ g.home = f.home /\ g.uncertain = f.uncertain /\ g.candidate = f.candidate
  BY <1>3 DEF Forms
<1>5. FormOK(g, store)
  BY <1>1, <1>4 DEF FormOK
<1>6. /\ forms' = [forms EXCEPT !["edit"] = g] /\ store' = store /\ UNCHANGED unknown
      /\ srv' \in [Places -> [Keys -> 0..MaxVersion]]
  BY <1>1, <1>2, <1>3 DEF CompareServer, SetForm, DraftsInv
<1> QED BY <1>1, <1>4, <1>5, <1>6, PageStep

LEMMA ElsewhereStep ==
    ASSUME DraftsInv, NEW p \in Places, NEW k \in Keys, Elsewhere(p, k)
    PROVE  DraftsInv' /\ VaultStep /\ SameServed
<1>1. forms[k] \in Forms \cup {None} /\ FormOK(forms[k], store) /\ forms' = [forms EXCEPT ![k] = forms[k]]
  BY DEF DraftsInv, Elsewhere
<1>2. srv' \in [Places -> [Keys -> 0..MaxVersion]]
  <2>1. srv[p][k] + 1 \in 0..MaxVersion
    BY Bounds DEF Elsewhere, DraftsInv
  <2> QED BY <2>1 DEF Elsewhere, DraftsInv
<1>3. <<store.owner, k>> \in unknown /\ forms[k] # None /\ forms[k].leased /\ ~forms[k].candidate =>
         forms[k].uncertain
  BY KnownFacts
<1> QED BY <1>1, <1>2, <1>3, PageStep DEF Elsewhere

\* FormDraft.succeeded, of a form with a dead lease too.
LEMMA SucceededStep ==
    ASSUME DraftsInv, NEW k \in Keys, forms[k] # None, NEW f, f \in Forms \cup {None}, FormOK(f, store),
           f # None => f.leased = forms[k].leased, Succeeded(k, f),
           srv' \in [Places -> [Keys -> 0..MaxVersion]]
    PROVE  DraftsInv' /\ VaultStep /\ SameServed
<1>1. forms' = [forms EXCEPT ![k] = f]
  BY DEF Succeeded, SetForm
<1>2. CASE Valid(forms[k])
  <2>1. store.active /\ store.owner \in Owners /\ StoreOK(store)
    BY <1>2, KnownFacts DEF DraftsInv
  <2>2. PICK p : p = [store EXCEPT !.pending = @ \ {k}]
    OBVIOUS
  <2>3. Wrote(p, store, k)
    BY <2>1, <2>2, OverFacts, MethodsWrite
  <2>4. PICK s \in Remove(p, k) : SetStore(s, unknown \ {<<store.owner, k>>})
    BY <1>2, <2>2 DEF Succeeded
  <2>5. StoreOK(p) /\ p.owner \in Owners
    BY <2>1, <2>3 DEF Wrote
  <2>6. Wrote(s, p, k)
    BY <2>4, <2>5, MethodsWrite
  <2>7. Wrote(s, store, k)
    BY <2>3, <2>6, WroteTwice
  <2>8. StoreOK(s) /\ Touched(s, store, k) /\ s.active = store.active
    BY <2>7 DEF Wrote
  <2> QED BY <1>1, <2>1, <2>4, <2>8, ResolvedStep
<1>3. CASE ~Valid(forms[k])
  <2>1. store' = store /\ UNCHANGED unknown
    BY <1>3 DEF Succeeded
  <2>2. f # None => ~f.leased
    BY <1>3, KnownFacts
  <2> QED BY <1>1, <2>1, <2>2, PageStep
<1> QED BY <1>2, <1>3

LEMMA CleanedFacts ==
    ASSUME NEW s, NEW f \in Forms, FormOK(f, s), NEW v \in 0..MaxVersion
    PROVE  /\ Cleaned(f, v) \in Forms /\ FormOK(Cleaned(f, v), s)
           /\ Cleaned(f, v).leased = f.leased
<1>1. PICK g : g = Cleaned(f, v)
  OBVIOUS
<1>2. /\ g \in Forms /\ g.leased = f.leased /\ g.home = f.home /\ g.version = v /\ g.base = v
      /\ g.pending = "no"
  BY <1>1, Bounds DEF Cleaned, Forms
<1>3. f # None
  BY NoneIsNothing
<1> QED BY <1>1, <1>2, <1>3 DEF FormOK

LEMMA DiscardStep ==
    ASSUME DraftsInv, NEW k \in Keys, Discard(k)
    PROVE  DraftsInv' /\ VaultStep /\ SameServed
<1>1. PICK f \in Forms : f = forms[k] /\ FormOK(f, store) /\ f # None
  BY KnownFacts DEF Discard
<1>2. f.loaded \in 0..MaxVersion
  BY DEF Forms
<1>3. PICK g : g = Cleaned(f, f.loaded)
  OBVIOUS
<1>4. g \in Forms /\ FormOK(g, store) /\ g.leased = f.leased
  BY <1>1, <1>2, <1>3, CleanedFacts
<1>5. Succeeded(k, g) /\ srv' \in [Places -> [Keys -> 0..MaxVersion]]
  BY <1>1, <1>3 DEF Discard, DraftsInv
<1> QED BY <1>1, <1>4, <1>5, SucceededStep

LEMMA UseServerStep ==
    ASSUME DraftsInv, "edit" \in Keys, NEW a \in 0..MaxAccess, UseServer(a)
    PROVE  DraftsInv' /\ VaultStep /\ SameServed
<1>1. PICK f \in Forms : f = forms["edit"] /\ FormOK(f, store) /\ f # None /\ f.seen # NoVersion
  BY KnownFacts DEF UseServer
<1>2. f.seen \in 0..MaxVersion
  BY <1>1, Bounds DEF Forms, NoVersion
<1>3. PICK h : h = [f EXCEPT !.shown = a]
  OBVIOUS
<1>4. h \in Forms /\ FormOK(h, store) /\ h.leased = f.leased
  <2>1. /\ h \in Forms /\ h.leased = f.leased /\ h.home = f.home /\ h.version = f.version /\ h.base = f.base
        /\ h.pending = f.pending /\ h.uncertain = f.uncertain /\ h.candidate = f.candidate
    BY <1>3 DEF Forms
  <2> QED BY <1>1, <2>1 DEF FormOK
<1>5. PICK g : g = Cleaned(h, f.seen)
  OBVIOUS
<1>6. g \in Forms /\ FormOK(g, store) /\ g.leased = f.leased
  BY <1>2, <1>4, <1>5, CleanedFacts
<1>7. Succeeded("edit", g) /\ srv' \in [Places -> [Keys -> 0..MaxVersion]]
  BY <1>1, <1>3, <1>5 DEF UseServer, DraftsInv
<1> QED BY <1>1, <1>6, <1>7, SucceededStep

LEMMA ReloadOrganizationStep ==
    ASSUME DraftsInv, "organize" \in Keys, ReloadOrganization
    PROVE  DraftsInv' /\ VaultStep /\ SameServed
<1>1. PICK f \in Forms : f = forms["organize"] /\ FormOK(f, store) /\ f # None
  BY KnownFacts DEF ReloadOrganization
<1>2. PICK v \in 0..MaxVersion : v = Current(f.home, "organize")
  <2>1. f.home \in Owners
    BY DEF Forms
  <2> QED BY <2>1, CurrentTyped
<1>3. PICK g : g = Cleaned(f, v)
  OBVIOUS
<1>4. g \in Forms /\ FormOK(g, store) /\ g.leased = f.leased
  BY <1>1, <1>3, CleanedFacts
<1>5. Succeeded("organize", g) /\ srv' \in [Places -> [Keys -> 0..MaxVersion]]
  BY <1>1, <1>2, <1>3 DEF ReloadOrganization, DraftsInv
<1> QED BY <1>1, <1>4, <1>5, SucceededStep

\* SetUncertain with a live lease, before or after its request is over.
LEMMA CertainStep ==
    ASSUME DraftsInv, NEW k \in Keys, forms[k] # None, Valid(forms[k]),
           NEW f, f \in Forms \cup {None}, FormOK(f, store), SetForm(k, f),
           NEW p, p = store \/ PendingOnly(p, store), NEW s \in SetUncertain(p, k, FALSE),
           SetStore(s, unknown \ {<<store.owner, k>>}),
           srv' \in [Places -> [Keys -> 0..MaxVersion]]
    PROVE  DraftsInv' /\ VaultStep /\ SameServed
<1>1. store.active /\ store.owner \in Owners /\ StoreOK(store)
  BY KnownFacts DEF DraftsInv
<1>2. Wrote(p, store, k)
  <2>1. CASE p = store
    BY <1>1, <2>1 DEF Wrote, Touched
  <2>2. CASE PendingOnly(p, store)
    BY <1>1, <2>2, MethodsWrite
  <2> QED BY <2>1, <2>2
<1>3. StoreOK(p) /\ p.owner \in Owners
  BY <1>1, <1>2 DEF Wrote
<1>4. Wrote(s, p, k)
  BY <1>3, MethodsWrite
<1>5. Wrote(s, store, k)
  BY <1>2, <1>4, WroteTwice
<1>6. StoreOK(s) /\ Touched(s, store, k) /\ s.active = store.active /\ forms' = [forms EXCEPT ![k] = f]
  BY <1>5 DEF Wrote, SetForm
<1> QED BY <1>1, <1>6, ResolvedStep

LEMMA VerifiedAbsentStep ==
    ASSUME DraftsInv, NEW k \in Keys, VerifiedAbsent(k)
    PROVE  DraftsInv' /\ VaultStep /\ SameServed
<1>1. PICK f \in Forms : f = forms[k] /\ FormOK(f, store) /\ f # None /\ f.pending = "no"
  BY KnownFacts DEF VerifiedAbsent
<1>2. PICK g : g = [f EXCEPT !.uncertain = FALSE]
  OBVIOUS
<1>3. /\ g \in Forms /\ g.leased = f.leased /\ g.home = f.home /\ g.version = f.version /\ g.base = f.base
      /\ g.pending = "no"
  BY <1>1, <1>2 DEF Forms
<1>4. FormOK(g, store)
  BY <1>1, <1>3 DEF FormOK
<1>5. SetForm(k, g) /\ srv' \in [Places -> [Keys -> 0..MaxVersion]]
  BY <1>1, <1>2 DEF VerifiedAbsent, DraftsInv
<1>6. CASE Valid(f)
  <2>1. PICK s \in SetUncertain(store, k, FALSE) : SetStore(s, unknown \ {<<store.owner, k>>})
    BY <1>1, <1>6 DEF VerifiedAbsent
  <2> QED BY <1>1, <1>3, <1>4, <1>5, <1>6, <2>1, CertainStep
<1>7. CASE ~Valid(f)
  <2>1. store' = store /\ UNCHANGED unknown /\ forms' = [forms EXCEPT ![k] = g]
    BY <1>1, <1>5, <1>7 DEF VerifiedAbsent, SetForm
  <2>2. ~g.leased
    BY <1>1, <1>3, <1>7, KnownFacts
  <2> QED BY <1>3, <1>4, <1>5, <2>1, <2>2, PageStep
<1> QED BY <1>6, <1>7

LEMMA AnswerRefusedStep ==
    ASSUME DraftsInv, NEW k \in Keys, NEW status, AnswerRefused(k, status)
    PROVE  DraftsInv' /\ VaultStep /\ SameServed
<1>1. PICK f \in Forms : f = forms[k] /\ FormOK(f, store) /\ f # None /\ f.pending # "no"
  BY KnownFacts DEF AnswerRefused, Waiting
<1>2. PICK h : h = [f EXCEPT !.pending = "no"]
  OBVIOUS
<1>3. /\ h \in Forms /\ h.leased = f.leased /\ h.home = f.home /\ h.version = f.version /\ h.base = f.base
      /\ h.pending = "no" /\ h.uncertain = f.uncertain
  BY <1>2 DEF Forms
<1>4. FormOK(h, store) /\ f.uncertain
  BY <1>1, <1>3 DEF FormOK
<1>5. srv' \in [Places -> [Keys -> 0..MaxVersion]]
  BY DEF AnswerRefused, DraftsInv
<1>6. CASE ~Heard(k)
  <2>1. store' = store /\ UNCHANGED unknown /\ forms' = [forms EXCEPT ![k] = h]
    BY <1>1, <1>2, <1>6 DEF AnswerRefused, SetForm
  <2> QED BY <1>3, <1>4, <1>5, <2>1, PageStep
<1>7. CASE Heard(k)
  <2>1. PICK g : g = [h EXCEPT !.uncertain = FALSE,
                               !.conflict = @ \/ (k = "edit" /\ status = "conflict"),
                               !.held = @ \/ (f.pending = "save" /\ status = "conflict")]
    OBVIOUS
  <2>2. /\ g \in Forms /\ g.leased = f.leased /\ g.home = f.home /\ g.version = f.version /\ g.base = f.base
        /\ g.pending = "no"
    <3>1. h.conflict \in BOOLEAN /\ h.held \in BOOLEAN
      BY <1>3 DEF Forms
    <3>2. PICK c \in BOOLEAN, d \in BOOLEAN :
             g = [h EXCEPT !.uncertain = FALSE, !.conflict = c, !.held = d]
      BY <2>1
    <3> QED BY <1>3, <3>2 DEF Forms
  <2>3. FormOK(g, store)
    BY <1>1, <2>2 DEF FormOK
  <2>4. SetForm(k, g)
    BY <1>1, <1>2, <1>7, <2>1 DEF AnswerRefused
  <2>5. CASE Valid(f)
    <3>1. PICK p : p = [store EXCEPT !.pending = @ \ {k}]
      OBVIOUS
    <3>2. PICK s \in SetUncertain(p, k, FALSE) : SetStore(s, unknown \ {<<store.owner, k>>})
      BY <1>1, <1>7, <2>5, <3>1 DEF AnswerRefused
    <3>3. PendingOnly(p, store)
      BY <3>1, OverFacts
    <3> QED BY <1>1, <1>5, <2>2, <2>3, <2>4, <2>5, <3>2, <3>3, CertainStep
  <2>6. CASE ~Valid(f)
    <3>1. store' = store /\ UNCHANGED unknown /\ forms' = [forms EXCEPT ![k] = g]
      BY <1>1, <1>7, <2>4, <2>6 DEF AnswerRefused, SetForm
    <3>2. ~g.leased
      BY <1>1, <2>2, <2>6, KnownFacts
    <3> QED BY <1>5, <2>2, <2>3, <3>1, <3>2, PageStep
  <2> QED BY <2>5, <2>6
<1> QED BY <1>6, <1>7

\* The server's version of a recipe after it handled a request.
LEMMA AppliedTyped ==
    ASSUME DraftsInv, NEW k \in Keys, forms[k] # None, Applies(CallOf(k))
    PROVE  Applied(CallOf(k)) \in [Places -> [Keys -> 0..MaxVersion]]
<1>1. forms[k].home.place \in Places
  BY KnownFacts DEF Forms, Places
<1>2. srv \in [Places -> [Keys -> 0..MaxVersion]]
  BY DEF DraftsInv
<1>3. PICK c : c = CallOf(k)
  OBVIOUS
<1>4. c.home.place \in Places /\ c.key = k
  BY <1>1, <1>3 DEF CallOf
<1>5. CASE c.what = "folder"
  BY <1>2, <1>3, <1>5 DEF Applied
<1>6. CASE c.what # "folder"
  <2>1. srv[c.home.place][k] < MaxVersion
    BY <1>3, <1>4, <1>6 DEF Applies
  <2>2. srv[c.home.place][k] + 1 \in 0..MaxVersion
    BY <1>2, <1>4, <2>1, Bounds
  <2>3. Applied(c) = [srv EXCEPT ![c.home.place][k] = srv[c.home.place][k] + 1]
    BY <1>2, <1>4, <1>6 DEF Applied
  <2> QED BY <1>2, <1>3, <1>4, <2>2, <2>3
<1> QED BY <1>5, <1>6

LEMMA AnswerOkStep ==
    ASSUME DraftsInv, NEW k \in Keys, AnswerOk(k)
    PROVE  DraftsInv' /\ VaultStep /\ SameServed
<1>1. PICK f \in Forms : f = forms[k] /\ FormOK(f, store) /\ f # None /\ f.pending # "no"
  BY KnownFacts DEF AnswerOk, Waiting
<1>2. f.uncertain /\ ~f.candidate /\ f.home \in Owners
  BY <1>1 DEF FormOK, Forms
<1>3. srv' \in [Places -> [Keys -> 0..MaxVersion]]
  BY <1>1, AppliedTyped DEF AnswerOk
<1>4. PICK v \in 0..MaxVersion : v = srv'[f.home.place][k]
  BY <1>2, <1>3 DEF Places
<1>5. CASE ~Heard(k)
  <2>1. PICK g : g = [f EXCEPT !.pending = "no"]
    OBVIOUS
  <2>2. /\ g \in Forms /\ g.leased = f.leased /\ g.home = f.home /\ g.version = f.version /\ g.base = f.base
        /\ g.pending = "no" /\ g.uncertain = f.uncertain
    BY <2>1 DEF Forms
  <2>3. FormOK(g, store)
    BY <1>1, <2>2 DEF FormOK
  <2>4. store' = store /\ UNCHANGED unknown /\ forms' = [forms EXCEPT ![k] = g]
    BY <1>1, <1>5, <2>1 DEF AnswerOk, SetForm
  <2> QED BY <1>2, <1>3, <2>2, <2>3, <2>4, PageStep
<1>6. CASE Heard(k) /\ f.pending = "folder"
  <2>1. PICK g : g = [f EXCEPT !.pending = "no", !.uncertain = FALSE]
    OBVIOUS
  <2>2. /\ g \in Forms /\ g.leased = f.leased /\ g.home = f.home /\ g.version = f.version /\ g.base = f.base
        /\ g.pending = "no"
    BY <2>1 DEF Forms
  <2>3. FormOK(g, store)
    BY <1>1, <2>2 DEF FormOK
  <2>4. SetForm(k, g)
    BY <1>1, <1>6, <2>1 DEF AnswerOk
  <2>5. CASE Valid(f)
    <3>1. PICK p : p = [store EXCEPT !.pending = @ \ {k}]
      OBVIOUS
    <3>2. PICK s \in SetUncertain(p, k, FALSE) :
             \E r \in Save(s, k, EntryOf(g)) : SetStore(r.s, unknown \ {<<store.owner, k>>})
      BY <1>1, <1>6, <2>1, <2>5, <3>1 DEF AnswerOk
    <3> PICK r \in Save(s, k, EntryOf(g)) : SetStore(r.s, unknown \ {<<store.owner, k>>})
      BY <3>2
    <3>3. StoreOK(store) /\ store.active /\ store.owner \in Owners
      BY <1>1, <2>5, KnownFacts DEF DraftsInv
    <3>4. Wrote(p, store, k)
      BY <3>1, <3>3, OverFacts, MethodsWrite
    <3>5. StoreOK(p) /\ p.owner \in Owners
      BY <3>3, <3>4 DEF Wrote
    <3>6. Wrote(s, store, k)
      BY <3>2, <3>4, <3>5, MethodsWrite, WroteTwice
    <3>7. StoreOK(s) /\ s.owner = store.owner
      BY <3>6 DEF Wrote
    <3>8. PICK e \in Entries : e = EntryOf(g) /\ e.home = s.owner /\ e.version = e.base /\ ~e.purged
      <4>1. g.leased
        BY <2>2, <2>5 DEF Valid
      <4> QED BY <2>2, <2>3, <3>7, <4>1, EntryOfFacts
    <3>9. Wrote(r.s, s, k)
      BY <3>2, <3>3, <3>7, <3>8, MethodsWrite
    <3>10. Wrote(r.s, store, k)
      BY <3>6, <3>9, WroteTwice
    <3>11. StoreOK(r.s) /\ Touched(r.s, store, k) /\ r.s.active = store.active /\ forms' = [forms EXCEPT ![k] = g]
      BY <2>4, <3>10 DEF Wrote, SetForm
    <3> QED BY <1>3, <2>2, <2>3, <3>2, <3>3, <3>11, ResolvedStep
  <2>6. CASE ~Valid(f)
    <3>1. store' = store /\ UNCHANGED unknown /\ forms' = [forms EXCEPT ![k] = g]
      BY <1>1, <1>6, <2>4, <2>6 DEF AnswerOk, SetForm
    <3>2. ~g.leased
      BY <1>1, <2>2, <2>6, KnownFacts
    <3> QED BY <1>3, <2>2, <2>3, <3>1, <3>2, PageStep
  <2> QED BY <2>5, <2>6
<1>7. CASE Heard(k) /\ f.pending # "folder"
  <2>1. PICK g : g = IF k = "create" THEN None ELSE Cleaned(f, v)
    OBVIOUS
  <2>2. Succeeded(k, g)
    BY <1>1, <1>4, <1>7, <2>1 DEF AnswerOk
  <2>3. g \in Forms \cup {None} /\ FormOK(g, store) /\ (g # None => g.leased = f.leased)
    <3>1. CASE k = "create"
      BY <2>1, <3>1 DEF FormOK
    <3>2. CASE k # "create"
      BY <1>1, <2>1, <3>2, CleanedFacts
    <3> QED BY <3>1, <3>2
  <2> QED BY <1>1, <1>3, <2>2, <2>3, SucceededStep
<1> QED BY <1>5, <1>6, <1>7

LEMMA TypeStep ==
    ASSUME DraftsInv, NEW k \in Keys, Type(k)
    PROVE  DraftsInv' /\ VaultStep /\ SameServed
<1> DEFINE own == <<store.owner, k>>
<1>1. PICK f \in Forms : f = forms[k] /\ FormOK(f, store) /\ f # None /\ f.leased /\ ~f.candidate
                          /\ (own \in unknown => f.uncertain)
  BY KnownFacts DEF Type
<1>2. store.active /\ store.owner \in Owners /\ StoreOK(store)
  BY <1>1, KnownFacts DEF Type, DraftsInv
<1>3. PICK g : g = [f EXCEPT !.dirty = TRUE]
  OBVIOUS
<1>4. /\ g \in Forms /\ g.leased = f.leased /\ g.home = f.home /\ g.version = f.version /\ g.base = f.base
      /\ g.pending = f.pending /\ g.uncertain = f.uncertain /\ g.candidate = f.candidate
  BY <1>3 DEF Forms
<1>5. FormOK(g, store)
  BY <1>1, <1>4 DEF FormOK
<1>6. PICK e \in Entries : /\ e = EntryOf(f) /\ e.home = store.owner /\ e.version = e.base /\ ~e.purged
                           /\ e.uncertain = f.uncertain
  BY <1>1, EntryOfFacts
<1>7. PICK r \in Save(store, k, e) : SetStore(r.s, unknown)
  BY <1>1, <1>6 DEF Type
<1>8. Wrote(r.s, store, k)
  BY <1>2, <1>6, <1>7, MethodsWrite
<1>9. /\ store' = r.s /\ unknown' = {slot \in unknown : Left(store', slot)}
      /\ forms' = [forms EXCEPT ![k] = g] /\ srv' \in [Places -> [Keys -> 0..MaxVersion]]
  BY <1>1, <1>3, <1>7 DEF SetStore, Left, Type, SetForm, DraftsInv
<1>10. /\ StoreOK(store') /\ Touched(store', store, k) /\ store'.active = store.active /\ SameServed
  BY <1>8, <1>9 DEF Wrote, SameServed
<1>11. ASSUME own \in unknown
       PROVE  /\ "unsent" \notin Offer(store', own) /\ store'.entries[k] # None
              /\ store'.disk = None \/ store'.disk.owner = store'.owner
  <2>1. UnknownOK(store, f, own)
    BY <1>1, <1>11 DEF DraftsInv
  <2>2. /\ store.entries[k] # None /\ "unsent" \notin Offer(store, own)
        /\ store.disk = None \/ store.disk.owner = store.owner
    BY <2>1 DEF UnknownOK
  <2>3. /\ StoreOK(r.s) /\ r.s.owner = store.owner /\ r.s.active = store.active
        /\ \/ r.s = store /\ ~r.ok /\ store.entries[k] = None
           \/ r.s.entries = [store.entries EXCEPT ![k] = e]
        /\ Written(r.s, store)
        /\ r.ok => r.s.disk = [owner |-> store.owner, entries |-> r.s.entries]
    <3>1. e.home = store.owner /\ e.version = e.base /\ ~e.purged
      BY <1>6
    <3>2. Saved(r, store, k, e)
      BY <1>2, <1>7, <3>1, SaveFacts
    <3> QED BY <3>2 DEF Saved
  <2>4. store.entries \in [Keys -> Entries \cup {None}]
    BY <1>2 DEF StoreOK, Stores
  <2>5. store'.entries[k] = e /\ store'.owner = store.owner /\ Written(store', store)
    BY <1>9, <2>2, <2>3, <2>4
  <2>6. store'.disk = None \/ store'.disk.owner = store'.owner
    BY <2>2, <2>5 DEF Written
  <2>7. ASSUME NEW d \in Copies(store', own) PROVE d.uncertain
    <3>1. CASE d = e
      BY <1>1, <1>6, <1>11, <3>1
    <3>2. CASE store.disk # None /\ store.disk.owner = store.owner /\ d = store.disk.entries[k] /\ d # None
      <4>1. d \in Copies(store, own)
        BY <3>2 DEF Copies
      <4>2. d \in Entries
        BY <1>2, <3>2 DEF StoreOK, Stores, Disks
      <4> QED BY <2>2, <4>1, <4>2, OfferFacts DEF Entries
    <3>3. \/ d = e
          \/ store.disk # None /\ store.disk.owner = store.owner /\ d = store.disk.entries[k] /\ d # None
      BY <2>5, <2>7 DEF Copies, Written
    <3> QED BY <3>1, <3>2, <3>3
  <2>8. e # None
    BY NoneIsNothing
  <2> QED BY <2>5, <2>6, <2>7, <2>8, OfferFacts
<1>12. own \in unknown' => store.owner \in Owners /\ UnknownOK(store', g, own)
  BY <1>1, <1>2, <1>4, <1>9, <1>11 DEF UnknownOK
<1>13. DraftsInv'
  <2>1. unknown' \subseteq unknown \cup {own} /\ \A slot \in unknown' : Left(store', slot)
    BY <1>9
  <2> QED BY <1>4, <1>5, <1>9, <1>10, <1>12, <2>1, OneFormStep
<1>14. VaultStep
  <2>1. unknown' \subseteq unknown /\ Fewer({own})
    BY <1>9, <1>10, OtherOffers
  <2> QED BY <1>2, <1>10, <1>11, <2>1, VaultKeeps DEF Fewer
<1> QED BY <1>10, <1>13, <1>14

LEMMA ExpireStep ==
    ASSUME DraftsInv, NEW k \in Keys, Expire(k)
    PROVE  DraftsInv' /\ VaultStep /\ SameServed
<1> DEFINE own == <<store.owner, k>>
<1>1. StoreOK(store) /\ store.entries \in [Keys -> Entries \cup {None}] /\ store.entries[k] # None
  BY DEF Expire, DraftsInv, StoreOK, Stores
<1>2. store.owner \in Owners
  BY <1>1 DEF StoreOK, OfOwner, Entries
<1>3. PICK aged : aged = [store EXCEPT !.entries[k] = None,
                                       !.disk = IF @ = None THEN None ELSE [@ EXCEPT !.entries[k] = None]]
  OBVIOUS
<1>4. PICK r \in Persist(aged) : SetStore(r.s, unknown)
  BY <1>3 DEF Expire
<1>5. PICK s : s = [store EXCEPT !.entries[k] = None]
  OBVIOUS
<1>6. /\ StoreOK(s) /\ s.owner = store.owner /\ s.active = store.active /\ s.disk = store.disk
      /\ s.entries = [store.entries EXCEPT ![k] = None]
  <2>1. Enters(store, k, None)
    BY DEF Enters
  <2> QED BY <1>1, <1>5, <2>1, EntryFacts DEF Entered
<1>7. PICK d : d = IF s.disk = None THEN None ELSE [s.disk EXCEPT !.entries[k] = None]
  OBVIOUS
<1>8. aged = [s EXCEPT !.disk = d]
  BY <1>1, <1>3, <1>5, <1>6, <1>7 DEF StoreOK, Stores
<1>9. IF s.disk = None THEN d = None
      ELSE /\ d \in Disks /\ d.owner = s.disk.owner /\ d.entries = [s.disk.entries EXCEPT ![k] = None]
           /\ OfOwner(d.entries, d.owner)
  <2>1. CASE s.disk = None
    BY <1>7, <2>1
  <2>2. CASE s.disk # None
    <3>1. s.disk \in Disks /\ OfOwner(s.disk.entries, s.disk.owner)
      BY <1>6, <2>2 DEF StoreOK, Stores
    <3>2. d \in Disks /\ d.owner = s.disk.owner /\ d.entries = [s.disk.entries EXCEPT ![k] = None]
      BY <1>7, <2>2, <3>1 DEF Disks
    <3>3. s.disk.entries \in [Keys -> Entries \cup {None}] /\ s.disk.owner \in Owners \cup {None}
      BY <3>1 DEF Disks
    <3>4. OfOwner([s.disk.entries EXCEPT ![k] = None], s.disk.owner)
      BY <3>1, <3>3, Counted
    <3> QED BY <2>2, <3>2, <3>4
  <2> QED BY <2>1, <2>2
<1>10. /\ aged \in Stores /\ aged.owner = s.owner /\ aged.active = s.active /\ aged.entries = s.entries
       /\ aged.disk = d /\ aged.purgePending = s.purgePending
  BY <1>6, <1>8, <1>9 DEF StoreOK, Stores
<1>11. StoreOK(aged)
  <2>1. d # None => s.disk # None /\ \A j \in Keys : d.entries[j] # None => d.entries[j] = s.disk.entries[j]
    BY <1>6, <1>9 DEF StoreOK, Stores, Disks
  <2> QED BY <1>6, <1>9, <1>10, <2>1 DEF StoreOK
<1>12. Touched(aged, store, k)
  <2>1. aged.owner = store.owner /\ \A j \in Keys \ {k} : aged.entries[j] = store.entries[j]
    BY <1>1, <1>6, <1>10
  <2>2. CASE s.disk = None
    BY <1>9, <1>10, <2>1, <2>2 DEF Touched
  <2>3. CASE s.disk # None
    <3>1. s.disk.entries \in [Keys -> Entries \cup {None}]
      BY <1>6, <2>3 DEF StoreOK, Stores, Disks
    <3> QED BY <1>6, <1>9, <1>10, <2>1, <2>3, <3>1 DEF Touched
  <2> QED BY <2>2, <2>3
<1>13. /\ StoreOK(r.s) /\ r.s.owner = aged.owner /\ r.s.active = aged.active /\ r.s.entries = aged.entries
       /\ Written(r.s, aged)
  BY <1>2, <1>4, <1>6, <1>10, <1>11, PersistFacts
<1>14. Touched(r.s, store, k)
  BY <1>11, <1>12, <1>13, WrittenTouches, TouchedTwice
<1>15. /\ store' = r.s /\ unknown' = {slot \in unknown : Left(store', slot)}
       /\ forms' = [forms EXCEPT ![k] = forms[k]] /\ srv' \in [Places -> [Keys -> 0..MaxVersion]]
       /\ forms[k] \in Forms \cup {None} /\ FormOK(forms[k], store)
  BY <1>4 DEF SetStore, Left, Expire, DraftsInv
<1>16. StoreOK(store') /\ Touched(store', store, k) /\ store'.active = store.active /\ SameServed
  BY <1>6, <1>10, <1>13, <1>14, <1>15 DEF SameServed
<1>17. Copies(store', own) = {}
  <2>1. store'.entries[k] = None
    BY <1>1, <1>6, <1>10, <1>13, <1>15
  <2>2. d # None => d.entries[k] = None
    <3>1. d # None => s.disk # None /\ s.disk.entries \in [Keys -> Entries \cup {None}]
      BY <1>6, <1>9 DEF StoreOK, Stores, Disks
    <3> QED BY <1>9, <3>1
  <2>3. store'.disk # None => store'.disk.entries[k] = None
    BY <1>10, <1>13, <1>15, <2>1, <2>2 DEF Written
  <2> QED BY <2>1, <2>3 DEF Copies
<1>18. own \notin unknown'
  BY <1>15, <1>17 DEF Left
<1>19. DraftsInv'
  <2>1. unknown' \subseteq unknown \cup {own} /\ \A slot \in unknown' : Left(store', slot)
    BY <1>15
  <2> QED BY <1>15, <1>16, <1>18, <2>1, OneFormStep
<1>20. VaultStep
  <2>1. unknown' \subseteq unknown /\ Fewer({own})
    BY <1>15, <1>16, OtherOffers
  <2>2. Offer(store', own) = {}
    BY <1>17 DEF Offer
  <2>3. Fewer({})
    BY <2>1, <2>2 DEF Fewer
  <2> QED BY <1>16, <2>3, VaultForgets
<1> QED BY <1>16, <1>19, <1>20

LEMMA BeginStep ==
    ASSUME DraftsInv, NEW k \in Keys, NEW what \in {"save", "folder"}, Begin(k, what)
    PROVE  DraftsInv' /\ VaultStep /\ SameServed
<1> DEFINE own == <<store.owner, k>>
<1>1. PICK f \in Forms : /\ f = forms[k] /\ FormOK(f, store) /\ f # None /\ f.leased /\ ~f.candidate
                         /\ ~f.uncertain /\ f.pending = "no" /\ own \notin unknown
  BY KnownFacts DEF Begin
<1>2. store.active /\ store.owner \in Owners /\ StoreOK(store)
  BY <1>1, KnownFacts DEF Begin, DraftsInv
<1>3. PICK e \in Entries : e = EntryOf(f) /\ e.home = store.owner /\ e.version = e.base /\ ~e.purged
  BY <1>1, EntryOfFacts
<1>4. PICK saved \in Save(store, k, e) :
         \E r \in PrepareMutation(saved.s, k, e) :
            IF r.ok
            THEN /\ SetStore([r.s EXCEPT !.pending = @ \cup {k}], unknown \cup {<<store.owner, k>>})
                 /\ SetForm(k, [f EXCEPT !.dirty = TRUE, !.pending = what, !.uncertain = TRUE])
            ELSE /\ SetStore(r.s, unknown)
                 /\ SetForm(k, [f EXCEPT !.dirty = TRUE])
  BY <1>1, <1>3 DEF Begin
<1>5. PICK r \in PrepareMutation(saved.s, k, e) :
            IF r.ok
            THEN /\ SetStore([r.s EXCEPT !.pending = @ \cup {k}], unknown \cup {<<store.owner, k>>})
                 /\ SetForm(k, [f EXCEPT !.dirty = TRUE, !.pending = what, !.uncertain = TRUE])
            ELSE /\ SetStore(r.s, unknown)
                 /\ SetForm(k, [f EXCEPT !.dirty = TRUE])
  BY <1>4
<1>6. Wrote(saved.s, store, k)
  BY <1>2, <1>3, <1>4, MethodsWrite
<1>7. StoreOK(saved.s) /\ saved.s.owner \in Owners /\ e.home = saved.s.owner
  BY <1>2, <1>3, <1>6 DEF Wrote
<1>8. Prepared(r, saved.s, k, e)
  <2>1. e.version = e.base /\ ~e.purged
    BY <1>3
  <2> QED BY <1>5, <1>7, <2>1, PrepareFacts
<1>9. Wrote(r.s, store, k)
  <2>1. PICK t, u : t = r.s /\ u = [e EXCEPT !.uncertain = TRUE]
    OBVIOUS
  <2>2. /\ StoreOK(t) /\ t.owner = saved.s.owner /\ t.active = saved.s.active /\ Written(t, saved.s)
        /\ t.entries \in {saved.s.entries, [saved.s.entries EXCEPT ![k] = u]}
    BY <1>8, <2>1 DEF Prepared
  <2>3. Wrote(t, saved.s, k)
    BY <1>7, <2>2, WrittenTouches DEF Wrote
  <2> QED BY <1>6, <2>1, <2>3, WroteTwice
<1>10. srv' \in [Places -> [Keys -> 0..MaxVersion]]
  BY DEF Begin, DraftsInv
<1>11. CASE ~r.ok
  <2>1. PICK g : g = [f EXCEPT !.dirty = TRUE]
    OBVIOUS
  <2>2. /\ g \in Forms /\ g.leased = f.leased /\ g.home = f.home /\ g.version = f.version /\ g.base = f.base
        /\ g.pending = "no"
    BY <1>1, <2>1 DEF Forms
  <2>3. FormOK(g, store)
    BY <1>1, <2>2 DEF FormOK
  <2>4. /\ store' = r.s /\ unknown' = {slot \in unknown : Left(store', slot)}
        /\ forms' = [forms EXCEPT ![k] = g]
    BY <1>5, <1>11, <2>1 DEF SetStore, Left, SetForm
  <2>5. StoreOK(store') /\ Touched(store', store, k) /\ store'.active = store.active /\ SameServed
    BY <1>9, <2>4 DEF Wrote, SameServed
  <2>6. /\ unknown' \subseteq unknown \cup {own} /\ unknown' \subseteq unknown /\ own \notin unknown'
        /\ \A slot \in unknown' : Left(store', slot)
    BY <1>1, <2>4
  <2>7. DraftsInv'
    BY <1>10, <2>2, <2>3, <2>4, <2>5, <2>6, OneFormStep
  <2>8. VaultStep
    <3>1. Fewer({own})
      BY <2>5, <2>6, OtherOffers
    <3> QED BY <1>1, <1>2, <2>5, <2>6, <3>1, VaultKeeps DEF Fewer
  <2> QED BY <2>5, <2>7, <2>8
<1>12. CASE r.ok
  <2>1. PICK g : g = [f EXCEPT !.dirty = TRUE, !.pending = what, !.uncertain = TRUE]
    OBVIOUS
  <2>2. /\ g \in Forms /\ g.leased = f.leased /\ g.home = f.home /\ g.version = f.version /\ g.base = f.base
        /\ g.uncertain /\ g.candidate = f.candidate
    BY <2>1 DEF Forms
  <2>3. FormOK(g, store)
    BY <1>1, <2>2 DEF FormOK
  <2>4. PICK s : s = [r.s EXCEPT !.pending = @ \cup {k}]
    OBVIOUS
  <2>5. /\ store' = s /\ unknown' = {slot \in unknown \cup {own} : Left(store', slot)}
        /\ forms' = [forms EXCEPT ![k] = g]
    BY <1>5, <1>12, <2>1, <2>4 DEF SetStore, Left, SetForm
  <2>6. /\ StoreOK(s) /\ s.owner = r.s.owner /\ s.active = r.s.active /\ s.entries = r.s.entries /\ s.disk = r.s.disk
        /\ Touched(s, r.s, k)
    <3>1. PICK t : t = r.s
      OBVIOUS
    <3>2. StoreOK(t) /\ t.pending \cup {k} \in SUBSET Keys
      BY <1>9, <3>1 DEF Wrote, StoreOK, Stores
    <3>3. PendingOnly(s, t)
      BY <2>4, <3>1, <3>2 DEF PendingOnly
    <3> QED BY <3>1, <3>2, <3>3, PendingFacts
  <2>7. StoreOK(store') /\ Touched(store', store, k) /\ store'.active = store.active /\ SameServed
    <3>1. Wrote(s, r.s, k)
      BY <2>6 DEF Wrote
    <3>2. Wrote(s, store, k)
      BY <1>9, <3>1, WroteTwice
    <3> QED BY <2>5, <3>2 DEF Wrote, SameServed
  <2>8. /\ store'.disk = None \/ store'.disk.owner = store'.owner
        /\ store'.disk # None => store'.disk.entries[k] = store'.entries[k]
        /\ store'.entries[k] = None \/ store'.entries[k].uncertain
    <3>1. saved.s.entries \in [Keys -> Entries \cup {None}] /\ [e EXCEPT !.uncertain = TRUE].uncertain
      BY <1>7 DEF StoreOK, Stores, Entries
    <3>2. r.s.disk \in {None, [owner |-> r.s.owner, entries |-> r.s.entries]}
      BY <1>8, <1>12 DEF Prepared
    <3>3. r.s.entries[k] = None \/ r.s.entries[k].uncertain
      BY <1>8, <3>1 DEF Prepared
    <3> QED BY <2>5, <2>6, <3>2, <3>3
  <2>9. \A d \in Copies(store', own) : d.uncertain /\ store'.entries[k] # None
    BY <2>8 DEF Copies
  <2>10. "unsent" \notin Offer(store', own)
    BY <2>9, OfferFacts
  <2>11. own \in unknown' => store.owner \in Owners /\ UnknownOK(store', g, own)
    BY <1>2, <2>2, <2>5, <2>8, <2>9, <2>10 DEF UnknownOK, Left
  <2>12. DraftsInv'
    <3>1. unknown' \subseteq unknown \cup {own} /\ \A slot \in unknown' : Left(store', slot)
      BY <2>5
    <3> QED BY <1>10, <2>2, <2>3, <2>5, <2>7, <2>11, <3>1, OneFormStep
  <2>13. VaultStep
    <3>1. Fewer({own})
      BY <2>5, <2>7, OtherOffers
    <3> QED BY <1>2, <2>7, <2>10, <3>1, VaultSubmits DEF Fewer
  <2> QED BY <2>7, <2>12, <2>13
<1> QED BY <1>11, <1>12

----------------------------------------------------------------------------
(* The identity and the tab.                                               *)

LEMMA EmptyFacts == /\ Empty \in [Keys -> Entries \cup {None}] /\ \A k \in Keys : Empty[k] = None
                    /\ \A o : OfOwner(Empty, o)
<1>1. Empty \in [Keys -> Entries \cup {None}] /\ \A k \in Keys : Empty[k] = None
  BY DEF Empty
<1>2. {k \in Keys : Empty[k] # None} = {}
  BY <1>1
<1>3. Cardinality({}) = 0 /\ 0 <= MaxEntries
  BY FS_EmptySet, DraftsAssumption
<1> QED BY <1>1, <1>2, <1>3 DEF OfOwner

\* The stored copy with or without the mark of a purge.
Marked(m, d, b) ==
    /\ m \in Disks /\ m.owner = d.owner /\ OfOwner(m.entries, m.owner)
    /\ \A k \in Keys :
          IF d.entries[k] = None THEN m.entries[k] = None
          ELSE /\ m.entries[k] # None /\ m.entries[k].purged = b
               /\ m.entries[k].uncertain = d.entries[k].uncertain

LEMMA MarkFacts ==
    ASSUME NEW d \in Disks, OfOwner(d.entries, d.owner), NEW b \in BOOLEAN, NEW m,
           m = [d EXCEPT !.entries = [k \in Keys |-> IF d.entries[k] = None THEN None
                                                     ELSE [d.entries[k] EXCEPT !.purged = b]]]
    PROVE  Marked(m, d, b)
<1>1. m.owner = d.owner
      /\ m.entries = [k \in Keys |-> IF d.entries[k] = None THEN None ELSE [d.entries[k] EXCEPT !.purged = b]]
  BY DEF Disks
<1>2. ASSUME NEW k \in Keys, d.entries[k] # None
      PROVE  /\ m.entries[k] \in Entries /\ m.entries[k].purged = b
             /\ m.entries[k].uncertain = d.entries[k].uncertain
             /\ m.entries[k].home = d.owner /\ m.entries[k].version = m.entries[k].base
  <2>1. PICK e \in Entries : e = d.entries[k] /\ e.home = d.owner /\ e.version = e.base
    BY <1>2 DEF Disks, OfOwner
  <2>2. PICK n : n = [e EXCEPT !.purged = b]
    OBVIOUS
  <2>3. n \in Entries /\ n.purged = b /\ n.uncertain = e.uncertain /\ n.home = e.home /\ n.version = e.version
        /\ n.base = e.base
    BY <2>2 DEF Entries
  <2>4. m.entries[k] = n
    BY <1>1, <1>2, <2>1, <2>2
  <2> QED BY <2>1, <2>3, <2>4
<1>3. \A k \in Keys : d.entries[k] = None => m.entries[k] = None
  BY <1>1
<1>4. \A k \in Keys : d.entries[k] # None => m.entries[k] # None
  BY <1>2, NoneIsNothing
<1>5. {k \in Keys : m.entries[k] # None} = {k \in Keys : d.entries[k] # None}
  BY <1>3, <1>4
<1>6. OfOwner(m.entries, m.owner)
  BY <1>1, <1>2, <1>3, <1>5 DEF OfOwner
<1>7. m.entries \in [Keys -> Entries \cup {None}]
  BY <1>1, <1>2, <1>3
<1>8. m \in Disks
  BY <1>1, <1>7 DEF Disks
<1> QED BY <1>1, <1>2, <1>3, <1>4, <1>6, <1>8 DEF Marked

\* A store that belongs to nobody keeps nothing in memory.
LEMMA NobodyKeeps ==
    ASSUME NEW s, StoreOK(s), s.owner = None
    PROVE  s.entries = Empty
<1>1. s.entries \in [Keys -> Entries \cup {None}] /\ None \notin Owners
  BY NoneIsNothing DEF StoreOK, Stores
<1>2. \A k \in Keys : s.entries[k] = None
  BY <1>1 DEF StoreOK, OfOwner, Entries
<1> QED BY <1>1, <1>2 DEF Empty

\* What is left after a purge, or in a store that belongs to nobody, of the
\* copies in the store s.
Handed(t, s) ==
    /\ StoreOK(t) /\ t.owner = None /\ ~t.active /\ t.entries = Empty
    /\ \A slot \in Slots : \A e \in Copies(t, slot) :
          \E d \in Copies(s, slot) : d.uncertain = e.uncertain

LEMMA PurgeFacts ==
    ASSUME NEW s, StoreOK(s), NEW t \in Purge(s)
    PROVE  /\ Handed(t, s)
           /\ \A slot \in Slots : ~Left(t, slot)
<1>1. PICK m : m = IF s.disk = None THEN None
                   ELSE [s.disk EXCEPT !.entries = [k \in Keys |-> IF s.disk.entries[k] = None THEN None
                                                                   ELSE [s.disk.entries[k] EXCEPT !.purged = TRUE]]]
  OBVIOUS
<1>2. IF s.disk = None THEN m = None ELSE m # None /\ Marked(m, s.disk, TRUE)
  <2>1. s.disk # None => s.disk \in Disks /\ OfOwner(s.disk.entries, s.disk.owner)
    BY DEF StoreOK, Stores
  <2>2. s.disk # None => Marked(m, s.disk, TRUE)
    BY <1>1, <2>1, MarkFacts
  <2>3. s.disk # None => m # None
    BY <2>2, NoneIsNothing DEF Marked
  <2> QED BY <1>1, <2>2, <2>3
<1>3. PICK p : p = [s EXCEPT !.owner = None, !.active = FALSE, !.entries = Empty, !.pending = {}, !.disk = m]
  OBVIOUS
<1>4. t \in EraseStorage(p)
  BY <1>1, <1>3 DEF Purge
<1>5. /\ p \in Stores /\ p.owner = None /\ ~p.active /\ p.entries = Empty /\ p.disk = m
  <2>1. m \in Disks \cup {None}
    BY <1>2 DEF Marked
  <2> QED BY <1>3, <2>1, EmptyFacts DEF StoreOK, Stores
<1>6. PICK ok \in BOOLEAN : t = [p EXCEPT !.purgePending = ~ok, !.disk = IF ok THEN None ELSE p.disk]
  BY <1>4 DEF EraseStorage, Flip
<1>7. /\ t \in Stores /\ t.owner = None /\ ~t.active /\ t.entries = Empty /\ t.purgePending = ~ok
      /\ t.disk = IF ok THEN None ELSE m
  BY <1>5, <1>6 DEF Stores
<1>8. t.disk # None => t.disk = m /\ t.purgePending /\ s.disk # None /\ Marked(m, s.disk, TRUE)
  BY <1>2, <1>7
<1>9. t.disk # None => \A k \in Keys : t.disk.entries[k] # None => t.disk.entries[k].purged
  BY <1>8 DEF Marked
<1>10. StoreOK(t)
  <2>1. t.disk # None => OfOwner(t.disk.entries, t.disk.owner)
    BY <1>8 DEF Marked
  <2> QED BY <1>7, <1>8, <1>9, <2>1, EmptyFacts DEF StoreOK
<1>11. ASSUME NEW slot \in Slots, NEW e \in Copies(t, slot)
       PROVE  e.purged /\ \E d \in Copies(s, slot) : d.uncertain = e.uncertain
  <2>1. slot[2] \in Keys /\ Empty[slot[2]] = None
    BY EmptyFacts DEF Slots
  <2>2. t.disk # None /\ t.disk.owner = slot[1] /\ e = t.disk.entries[slot[2]] /\ e # None
    BY <1>7, <1>11, <2>1 DEF Copies
  <2>3. /\ s.disk # None /\ s.disk.owner = slot[1] /\ s.disk.entries[slot[2]] # None
        /\ s.disk.entries[slot[2]].uncertain = e.uncertain
    BY <1>8, <2>1, <2>2 DEF Marked
  <2>4. s.disk.entries[slot[2]] \in Copies(s, slot)
    BY <2>3 DEF Copies
  <2> QED BY <1>9, <2>1, <2>2, <2>3, <2>4
<1> QED BY <1>7, <1>10, <1>11 DEF Handed, Left

\* The store of an owner to whom the tab was handed.
Adopted(t, s, o) ==
    /\ StoreOK(t) /\ t.owner = o
    /\ \A slot \in Slots :
         /\ Copies(t, slot) \subseteq Copies(s, slot)
         /\ Left(t, slot) /\ slot[1] = o =>
              t.entries[slot[2]] # None /\ (t.disk = None \/ t.disk.owner = o)

\* Nothing in memory, and the storage as it was or less of it.
LEMMA AdoptEmpty ==
    ASSUME NEW s, StoreOK(s), s.owner = None, NEW o \in Owners,
           NEW t, StoreOK(t), t.owner = o, t.entries = Empty, t.disk \in {None, s.disk},
           s.purgePending \/ s.disk = None \/ s.disk.owner # o
    PROVE  Adopted(t, s, o)
<1>1. ASSUME NEW slot \in Slots, NEW e \in Copies(t, slot)
      PROVE  t.disk # None /\ t.disk = s.disk /\ s.disk.owner = slot[1] /\ e = s.disk.entries[slot[2]] /\ e # None
  <2>1. slot[2] \in Keys /\ Empty[slot[2]] = None
    BY EmptyFacts DEF Slots
  <2> QED BY <1>1, <2>1 DEF Copies
<1>2. ASSUME NEW slot \in Slots PROVE Copies(t, slot) \subseteq Copies(s, slot)
  BY <1>1 DEF Copies
<1>3. ASSUME NEW slot \in Slots, Left(t, slot) PROVE slot[1] # o
  <2>1. PICK e \in Copies(t, slot) : ~e.purged
    BY <1>3 DEF Left
  <2>2. s.disk # None /\ s.disk.owner = slot[1] /\ e = s.disk.entries[slot[2]] /\ e # None
    BY <1>1, <2>1
  <2>3. ~s.purgePending
    <3>1. slot[2] \in Keys
      BY DEF Slots
    <3> QED BY <2>1, <2>2, <3>1 DEF StoreOK
  <2> QED BY <2>2, <2>3
<1> QED BY <1>2, <1>3 DEF Adopted

LEMMA AdoptFacts ==
    ASSUME NEW s, StoreOK(s), s.owner = None, NEW o \in Owners,
           NEW t \in (IF s.purgePending THEN {[s EXCEPT !.owner = o, !.entries = Empty]}
                      ELSE Read([s EXCEPT !.owner = o], o))
    PROVE  Adopted(t, s, o)
<1>1. PICK q : q = [s EXCEPT !.owner = o, !.entries = Empty]
  OBVIOUS
<1>2. /\ q \in Stores /\ q.owner = o /\ q.entries = Empty /\ q.disk = s.disk /\ q.purgePending = s.purgePending
  BY <1>1, EmptyFacts DEF StoreOK, Stores
<1>3. StoreOK(q)
  BY <1>2, EmptyFacts, NoneIsNothing DEF StoreOK
<1>4. CASE s.purgePending
  <2>1. t = q
    BY <1>1, <1>4
  <2> QED BY <1>2, <1>3, <1>4, <2>1, AdoptEmpty
<1>5. CASE ~s.purgePending /\ s.disk = None
  <2>1. t = q
    BY <1>1, <1>5 DEF Read, StoreOK, Stores
  <2> QED BY <1>2, <1>3, <1>5, <2>1, AdoptEmpty
<1>6. CASE ~s.purgePending /\ s.disk # None /\ s.disk.owner # o
  <2>1. t \in EraseStorage(q)
    BY <1>1, <1>6 DEF Read, StoreOK, Stores
  <2>2. /\ StoreOK(t) /\ t.owner = q.owner /\ t.entries = q.entries /\ t.disk \in {None, q.disk}
    BY <1>2, <1>3, <2>1, EraseFacts
  <2> QED BY <1>2, <1>6, <2>2, AdoptEmpty
<1>7. CASE ~s.purgePending /\ s.disk # None /\ s.disk.owner = o
  <2>1. t = [s EXCEPT !.owner = o, !.entries = s.disk.entries]
    BY <1>7 DEF Read, StoreOK, Stores
  <2>2. s.disk \in Disks /\ s.disk.entries \in [Keys -> Entries \cup {None}]
    BY <1>7 DEF StoreOK, Stores, Disks
  <2>3. /\ t \in Stores /\ t.owner = o /\ t.entries = s.disk.entries /\ t.disk = s.disk
        /\ t.purgePending = s.purgePending
    BY <2>1, <2>2 DEF StoreOK, Stores
  <2>4. StoreOK(t)
    BY <1>7, <2>3 DEF StoreOK
  <2>5. ASSUME NEW slot \in Slots, NEW e \in Copies(t, slot)
        PROVE  e = s.disk.entries[slot[2]] /\ e # None /\ slot[1] = o
    BY <1>7, <2>3, <2>5 DEF Copies
  <2>6. ASSUME NEW slot \in Slots PROVE Copies(t, slot) \subseteq Copies(s, slot)
    BY <1>7, <2>5 DEF Copies
  <2>7. ASSUME NEW slot \in Slots, Left(t, slot) PROVE t.entries[slot[2]] # None
    BY <2>3, <2>5, <2>7 DEF Left
  <2> QED BY <1>7, <2>3, <2>4, <2>6, <2>7 DEF Adopted
<1> QED BY <1>4, <1>5, <1>6, <1>7

\* A store that belongs to nobody after its pending purge was tried again.
LEMMA RetriedFacts ==
    ASSUME NEW s, NEW t, Handed(t, s), NEW u \in (IF t.purgePending THEN EraseStorage(t) ELSE {t})
    PROVE  Handed(u, s)
<1>1. StoreOK(t) /\ t.owner = None /\ ~t.active /\ t.entries = Empty
  BY DEF Handed
<1>2. StoreOK(u) /\ u.owner = None /\ ~u.active /\ u.entries = Empty /\ u.disk \in {None, t.disk}
  BY <1>1, EraseFacts
<1>3. \A slot \in Slots : Copies(u, slot) \subseteq Copies(t, slot)
  BY <1>1, <1>2 DEF Copies
<1> QED BY <1>2, <1>3 DEF Handed

Activated(t, s) == t = [s EXCEPT !.active = TRUE]

LEMMA ActivatedFacts ==
    ASSUME NEW s, StoreOK(s), s.owner \in Owners, NEW t, Activated(t, s)
    PROVE  /\ StoreOK(t) /\ t.owner = s.owner /\ t.active /\ t.entries = s.entries /\ t.disk = s.disk
           /\ \A slot : Copies(t, slot) = Copies(s, slot)
<1>1. /\ t \in Stores /\ t.owner = s.owner /\ t.active /\ t.entries = s.entries /\ t.disk = s.disk
      /\ t.purgePending = s.purgePending
  BY DEF StoreOK, Stores, Activated
<1>2. StoreOK(t)
  BY <1>1 DEF StoreOK
<1>3. \A slot : Copies(t, slot) = Copies(s, slot)
  BY <1>1 DEF Copies
<1> QED BY <1>1, <1>2, <1>3

\* What confirming an identity leaves of the copies.
Confirmed(t, s, o) ==
    /\ StoreOK(t) /\ t.owner = o /\ t.active
    /\ \A slot \in Slots :
         /\ \A e \in Copies(t, slot) : \E d \in Copies(s, slot) : d.uncertain = e.uncertain
         /\ s.owner # o /\ Left(t, slot) /\ slot[1] = o =>
              t.entries[slot[2]] # None /\ (t.disk = None \/ t.disk.owner = o)
    /\ s.owner = o => t.entries = s.entries /\ t.disk \in {None, s.disk}

LEMMA ConfirmFacts ==
    ASSUME NEW s, StoreOK(s), s.owner \in Owners \/ ~s.active, NEW o \in Owners, NEW t \in ConfirmIdentity(s, o)
    PROVE  Confirmed(t, s, o)
<1> DEFINE left == IF s.owner \notin {None, o} THEN Purge(s) ELSE {s}
           retry(l) == IF l.purgePending THEN EraseStorage(l) ELSE {l}
           adopt(u) == IF u.owner = o THEN {u}
                       ELSE IF u.purgePending THEN {[u EXCEPT !.owner = o, !.entries = Empty]}
                       ELSE Read([u EXCEPT !.owner = o], o)
<1>1. PICK v \in UNION {adopt(u) : u \in UNION {retry(l) : l \in left}} : t = [v EXCEPT !.active = TRUE]
  BY DEF ConfirmIdentity
<1>2. PICK u \in UNION {retry(l) : l \in left} : v \in adopt(u)
  BY <1>1
<1>3. PICK l \in left : u \in retry(l)
  BY <1>2
<1>4. o # None
  BY NoneIsNothing
<1>5. CASE s.owner = o
  <2>1. l = s
    BY <1>5
  <2>2. StoreOK(u) /\ u.owner = o /\ u.entries = s.entries /\ u.disk \in {None, s.disk}
    <3>1. CASE l.purgePending
      <4>1. u \in EraseStorage(s)
        BY <1>3, <2>1, <3>1
      <4> QED BY <1>5, <4>1, EraseFacts
    <3>2. CASE ~l.purgePending
      BY <1>3, <1>5, <2>1, <3>2
    <3> QED BY <3>1, <3>2
  <2>3. Activated(t, u)
    BY <1>1, <1>2, <2>2 DEF Activated
  <2>4. /\ StoreOK(t) /\ t.owner = o /\ t.active /\ t.entries = s.entries /\ t.disk \in {None, s.disk}
    BY <2>2, <2>3, ActivatedFacts
  <2>5. \A slot \in Slots : Copies(t, slot) \subseteq Copies(s, slot)
    BY <1>5, <2>4 DEF Copies
  <2> QED BY <1>5, <2>4, <2>5 DEF Confirmed
<1>6. CASE s.owner # o
  <2>1. Handed(l, s)
    <3>1. CASE s.owner = None
      <4>1. l = s /\ ~s.active
        BY <1>3, <3>1, NoneIsNothing
      <4> QED BY <3>1, <4>1, NobodyKeeps DEF Handed
    <3>2. CASE s.owner # None
      BY <1>3, <1>6, <3>2, PurgeFacts
    <3> QED BY <3>1, <3>2
  <2>2. Handed(u, s)
    BY <1>3, <2>1, RetriedFacts
  <2>3. Adopted(v, u, o)
    <3>1. StoreOK(u) /\ u.owner = None
      BY <2>2 DEF Handed
    <3>2. v \in (IF u.purgePending THEN {[u EXCEPT !.owner = o, !.entries = Empty]}
                 ELSE Read([u EXCEPT !.owner = o], o))
      BY <1>2, <1>4, <3>1
    <3> QED BY <3>1, <3>2, AdoptFacts
  <2>4. /\ StoreOK(t) /\ t.owner = o /\ t.active /\ t.entries = v.entries /\ t.disk = v.disk
        /\ \A slot : Copies(t, slot) = Copies(v, slot)
    <3>1. StoreOK(v) /\ v.owner = o /\ v.owner \in Owners
      BY <2>3 DEF Adopted
    <3>2. Activated(t, v)
      BY <1>1 DEF Activated
    <3>3. /\ StoreOK(t) /\ t.owner = v.owner /\ t.active /\ t.entries = v.entries /\ t.disk = v.disk
          /\ \A slot : Copies(t, slot) = Copies(v, slot)
      BY <3>1, <3>2, ActivatedFacts
    <3> QED BY <3>1, <3>3
  <2>5. ASSUME NEW slot \in Slots
        PROVE  /\ \A e \in Copies(t, slot) : \E d \in Copies(s, slot) : d.uncertain = e.uncertain
               /\ Left(t, slot) /\ slot[1] = o =>
                    t.entries[slot[2]] # None /\ (t.disk = None \/ t.disk.owner = o)
    <3>1. Copies(t, slot) \subseteq Copies(u, slot)
      BY <2>3, <2>4 DEF Adopted
    <3>2. Left(t, slot) => Left(v, slot)
      BY <2>4 DEF Left
    <3>3. Left(v, slot) /\ slot[1] = o =>
             v.entries[slot[2]] # None /\ (v.disk = None \/ v.disk.owner = o)
      BY <2>3 DEF Adopted
    <3>4. \A e \in Copies(u, slot) : \E d \in Copies(s, slot) : d.uncertain = e.uncertain
      BY <2>2 DEF Handed
    <3> QED BY <2>4, <3>1, <3>2, <3>3, <3>4
  <2> QED BY <1>6, <2>4, <2>5 DEF Confirmed
<1> QED BY <1>5, <1>6

\* A store whose copies are some of those in the tab: that of the tab, or one
\* that belongs to nobody any more.
Source(r) ==
    /\ StoreOK(r)
    /\ \A slot \in Slots : \A e \in Copies(r, slot) : \E d \in Copies(store, slot) : d.uncertain = e.uncertain
    /\ \/ r.owner = None
       \/ r.owner = store.owner /\ r.entries = store.entries /\ r.disk = store.disk

\* The tab is handed to an owner, whatever the store went through before.
LEMMA HandOverStep ==
    ASSUME DraftsInv, NEW o \in Owners, NEW r, Source(r), NEW t \in ConfirmIdentity(r, o),
           SetStore(t, unknown), UNCHANGED srv,
           forms' = EndLeases(forms) \/ (forms' = forms /\ store.owner = o)
    PROVE  DraftsInv' /\ VaultStep /\ store'.active /\ store'.owner = o
<1>1. StoreOK(r) /\ (r.owner \in Owners \/ ~r.active)
  BY DEF Source, StoreOK
<1>2. Confirmed(t, r, o)
  BY <1>1, ConfirmFacts
<1>3. /\ store' = t /\ unknown' = {slot \in unknown : Left(store', slot)}
      /\ unknown' \subseteq unknown /\ unknown \subseteq Slots
  BY DEF SetStore, Left, DraftsInv
<1>4. StoreOK(store') /\ store'.owner = o /\ store'.active
  BY <1>2, <1>3 DEF Confirmed
<1>5. ASSUME NEW slot \in Slots PROVE Offer(store', slot) \subseteq Offer(store, slot)
  <2>1. \A e \in Copies(store', slot) : \E d \in Copies(store, slot) : d.uncertain = e.uncertain
    BY <1>2, <1>3 DEF Confirmed, Source
  <2> QED BY <2>1, FewerOffers
<1>6. ASSUME NEW slot \in unknown', slot[1] = store'.owner
      PROVE  store'.entries[slot[2]] # None /\ (store'.disk = None \/ store'.disk.owner = store'.owner)
  <2>1. slot \in Slots /\ slot \in unknown /\ Left(store', slot)
    BY <1>3, <1>6
  <2>2. CASE r.owner # o
    BY <1>2, <1>3, <1>4, <1>6, <2>1, <2>2 DEF Confirmed
  <2>3. CASE r.owner = o
    <3>1. store.owner = o /\ r.entries = store.entries /\ r.disk = store.disk
      BY <2>3, NoneIsNothing DEF Source
    <3>2. UnknownOK(store, forms[slot[2]], slot)
      BY <2>1 DEF DraftsInv
    <3>3. store'.entries = store.entries /\ store'.disk \in {None, store.disk}
      BY <1>2, <1>3, <2>3, <3>1 DEF Confirmed
    <3> QED BY <1>4, <1>6, <3>1, <3>2, <3>3 DEF UnknownOK
  <2> QED BY <2>2, <2>3
<1>7. /\ forms' \in [Keys -> Forms \cup {None}] /\ \A k \in Keys : FormOK(forms'[k], store')
      /\ \A k \in Keys : forms'[k] # None /\ forms'[k].leased =>
                            forms'[k] = forms[k] /\ store'.owner = store.owner
  <2>1. CASE forms' = forms /\ store.owner = o
    <3>1. forms \in [Keys -> Forms \cup {None}] /\ \A k \in Keys : FormOK(forms[k], store)
      BY DEF DraftsInv
    <3>2. \A k \in Keys : FormOK(forms[k], store')
      BY <1>4, <2>1, <3>1 DEF FormOK
    <3> QED BY <1>4, <2>1, <3>1, <3>2
  <2>2. CASE forms' = EndLeases(forms)
    BY <2>2, EndedLeases
  <2> QED BY <2>1, <2>2
<1>8. DraftsInv'
  <2>1. \A slot \in unknown' :
           /\ Offer(store', slot) \subseteq Offer(store, slot)
           /\ Left(store', slot)
           /\ slot[1] = store'.owner => /\ store'.entries[slot[2]] # None
                                        /\ store'.disk = None \/ store'.disk.owner = store'.owner
    BY <1>3, <1>5, <1>6
  <2> QED BY <1>3, <1>4, <1>7, <2>1, OwnerStep
<1>9. VaultStep
  <2>1. o = IF store'.active THEN store'.owner ELSE None
    BY <1>4
  <2>2. Fewer({})
    BY <1>3, <1>5 DEF Fewer
  <2> QED BY <2>1, <2>2, VaultServes
<1> QED BY <1>4, <1>8, <1>9

LEMMA ConfirmStep ==
    ASSUME DraftsInv, NEW o \in Owners, Confirm(o)
    PROVE  DraftsInv' /\ VaultStep
<1>1. PICK s \in ConfirmIdentity(store, o) : SetStore(s, unknown)
  BY DEF Confirm
<1>2. Source(store)
  BY DEF Source, DraftsInv
<1>3. UNCHANGED srv /\ (forms' = EndLeases(forms) \/ (forms' = forms /\ store.owner = o))
  BY DEF Confirm
<1> QED BY <1>1, <1>2, <1>3, HandOverStep

LEMMA SuspendStep ==
    ASSUME DraftsInv, SuspendDrafts
    PROVE  DraftsInv' /\ VaultStep
<1>1. StoreOK(store)
  BY DEF DraftsInv
<1>2. /\ store' \in Stores /\ store'.owner = store.owner /\ ~store'.active /\ store'.entries = store.entries
      /\ store'.disk = store.disk /\ store'.purgePending = store.purgePending
  BY <1>1 DEF SuspendDrafts, Suspend, StoreOK, Stores
<1>3. StoreOK(store')
  BY <1>1, <1>2 DEF StoreOK
<1>4. forms' = EndLeases(forms) /\ UNCHANGED <<srv, unknown>>
  BY DEF SuspendDrafts
<1>5. \A slot : Copies(store', slot) = Copies(store, slot)
  BY <1>2 DEF Copies
<1>6. \A slot : Offer(store', slot) = Offer(store, slot) /\ Left(store', slot) = Left(store, slot)
  BY <1>5 DEF Offer, Left
<1>7. \A slot \in unknown' : /\ Offer(store', slot) \subseteq Offer(store, slot)
                             /\ Left(store', slot)
                             /\ slot[1] = store'.owner =>
                                  /\ store'.entries[slot[2]] # None
                                  /\ store'.disk = None \/ store'.disk.owner = store'.owner
  BY <1>2, <1>4, <1>6 DEF DraftsInv, UnknownOK
<1>8. /\ forms' \in [Keys -> Forms \cup {None}] /\ \A k \in Keys : FormOK(forms'[k], store')
      /\ \A k \in Keys : forms'[k] # None /\ forms'[k].leased =>
                            forms'[k] = forms[k] /\ store'.owner = store.owner
  BY <1>4, EndedLeases
<1>9. DraftsInv'
  BY <1>3, <1>4, <1>7, <1>8, OwnerStep
<1>10. VaultStep
  <2>1. None = IF store'.active THEN store'.owner ELSE None
    BY <1>2
  <2>2. Fewer({})
    BY <1>4, <1>6 DEF Fewer
  <2> QED BY <2>1, <2>2, VaultServes
<1> QED BY <1>9, <1>10

LEMMA PurgeStep ==
    ASSUME DraftsInv, PurgeDrafts
    PROVE  DraftsInv' /\ VaultStep
<1>1. PICK s \in Purge(store) : SetStore(s, unknown)
  BY DEF PurgeDrafts
<1>2. Handed(s, store) /\ \A slot \in Slots : ~Left(s, slot)
  BY <1>1, PurgeFacts DEF DraftsInv
<1>3. /\ store' = s /\ unknown' = {slot \in unknown : Left(store', slot)}
      /\ forms' = EndLeases(forms) /\ UNCHANGED srv /\ unknown \subseteq Slots
  BY <1>1 DEF SetStore, Left, PurgeDrafts, DraftsInv
<1>4. unknown' = {}
  BY <1>2, <1>3
<1>5. StoreOK(store') /\ store'.owner = None /\ ~store'.active
  BY <1>2, <1>3 DEF Handed
<1>6. /\ forms' \in [Keys -> Forms \cup {None}] /\ \A k \in Keys : FormOK(forms'[k], store')
      /\ \A k \in Keys : forms'[k] # None /\ forms'[k].leased =>
                            forms'[k] = forms[k] /\ store'.owner = store.owner
  BY <1>3, EndedLeases
<1>7. DraftsInv'
  <2>1. \A slot \in unknown' :
           /\ Offer(store', slot) \subseteq Offer(store, slot)
           /\ Left(store', slot)
           /\ slot[1] = store'.owner => /\ store'.entries[slot[2]] # None
                                        /\ store'.disk = None \/ store'.disk.owner = store'.owner
    BY <1>4
  <2>2. unknown' \subseteq unknown
    BY <1>4
  <2> QED BY <1>3, <1>5, <1>6, <2>1, <2>2, OwnerStep
<1>8. VaultStep
  <2>1. None = IF store'.active THEN store'.owner ELSE None
    BY <1>5
  <2>2. \A slot \in Slots : Offer(store', slot) \subseteq Offer(store, slot)
    BY <1>2, <1>3, FewerOffers DEF Handed
  <2>3. Fewer({})
    BY <1>4, <2>2 DEF Fewer
  <2> QED BY <2>1, <2>3, VaultServes
<1> QED BY <1>7, <1>8

\* The memory of the tab is gone; its storage is not.
LEMMA ReloadStep ==
    ASSUME DraftsInv, Reload
    PROVE  DraftsInv' /\ VaultStep
<1>1. PICK m : m = IF store.disk = None THEN None
                   ELSE [store.disk EXCEPT !.entries =
                           [k \in Keys |-> IF store.disk.entries[k] = None THEN None
                                           ELSE [store.disk.entries[k] EXCEPT !.purged = FALSE]]]
  OBVIOUS
<1>2. StoreOK(store)
  BY DEF DraftsInv
<1>3. IF store.disk = None THEN m = None ELSE m # None /\ Marked(m, store.disk, FALSE)
  <2>1. store.disk # None => store.disk \in Disks /\ OfOwner(store.disk.entries, store.disk.owner)
    BY <1>2 DEF StoreOK, Stores
  <2>2. store.disk # None => Marked(m, store.disk, FALSE)
    BY <1>1, <2>1, MarkFacts
  <2>3. store.disk # None => m # None
    BY <2>2, NoneIsNothing DEF Marked
  <2> QED BY <1>1, <2>2, <2>3
<1>4. SetStore([owner |-> None, active |-> FALSE, entries |-> Empty, pending |-> {},
                purgePending |-> FALSE, disk |-> m], unknown)
  BY <1>1 DEF Reload
<1>5. /\ store' = [owner |-> None, active |-> FALSE, entries |-> Empty, pending |-> {},
                   purgePending |-> FALSE, disk |-> m]
      /\ unknown' = {slot \in unknown : Left(store', slot)}
      /\ unknown' \subseteq unknown /\ unknown \subseteq Slots
  BY <1>4 DEF SetStore, Left, DraftsInv
<1>6. /\ store'.owner = None /\ ~store'.active /\ store'.entries = Empty /\ store'.disk = m
      /\ ~store'.purgePending /\ store' \in Stores
  <2>1. m \in Disks \cup {None}
    BY <1>3 DEF Marked
  <2> QED BY <1>5, <2>1, EmptyFacts DEF Stores
<1>7. StoreOK(store')
  <2>1. m # None => /\ OfOwner(m.entries, m.owner)
                    /\ \A k \in Keys : m.entries[k] # None => ~m.entries[k].purged
    BY <1>3 DEF Marked
  <2> QED BY <1>6, <2>1, EmptyFacts DEF StoreOK
<1>8. ASSUME NEW slot \in Slots PROVE Offer(store', slot) \subseteq Offer(store, slot)
  <2>1. ASSUME NEW e \in Copies(store', slot)
        PROVE  \E d \in Copies(store, slot) : d.uncertain = e.uncertain
    <3>1. slot[2] \in Keys /\ Empty[slot[2]] = None
      BY EmptyFacts DEF Slots
    <3>2. m # None /\ m.owner = slot[1] /\ e = m.entries[slot[2]] /\ e # None
      BY <1>6, <2>1, <3>1 DEF Copies
    <3>3. /\ store.disk # None /\ store.disk.owner = slot[1] /\ store.disk.entries[slot[2]] # None
          /\ store.disk.entries[slot[2]].uncertain = e.uncertain
      BY <1>3, <3>1, <3>2 DEF Marked
    <3>4. store.disk.entries[slot[2]] \in Copies(store, slot)
      BY <3>3 DEF Copies
    <3> QED BY <3>3, <3>4
  <2> QED BY <2>1, FewerOffers
<1>9. /\ forms' \in [Keys -> Forms \cup {None}] /\ \A k \in Keys : FormOK(forms'[k], store')
      /\ \A k \in Keys : forms'[k] = None
  BY DEF Reload, Empty, FormOK
<1>10. ASSUME NEW slot \in unknown' PROVE slot \in Slots /\ Left(store', slot) /\ slot[1] # store'.owner
  BY <1>5, <1>6, <1>10, NoneIsNothing DEF Slots
<1>11. DraftsInv'
  <2>1. \A slot \in unknown' :
           /\ Offer(store', slot) \subseteq Offer(store, slot)
           /\ Left(store', slot)
           /\ slot[1] = store'.owner => /\ store'.entries[slot[2]] # None
                                        /\ store'.disk = None \/ store'.disk.owner = store'.owner
    BY <1>8, <1>10
  <2>2. UNCHANGED srv
    BY DEF Reload
  <2> QED BY <1>5, <1>7, <1>9, <2>1, <2>2, OwnerStep
<1>12. VaultStep
  <2>1. None = IF store'.active THEN store'.owner ELSE None
    BY <1>6
  <2>2. Fewer({})
    BY <1>5, <1>8 DEF Fewer
  <2> QED BY <2>1, <2>2, VaultServes
<1> QED BY <1>11, <1>12

----------------------------------------------------------------------------
(* The invariant and what follows from it.                                 *)

LEMMA DraftsStarts == Init => DraftsInv /\ Vault!VaultInit
<1> SUFFICES ASSUME Init PROVE DraftsInv /\ Vault!VaultInit
  OBVIOUS
<1>1. /\ store = [owner |-> None, active |-> FALSE, entries |-> Empty, pending |-> {},
                  purgePending |-> FALSE, disk |-> None]
      /\ forms = Empty /\ unknown = {}
      /\ srv = [p \in Places |-> [k \in Keys |-> IF k = "create" THEN 0 ELSE 1]]
  BY DEF Init
<1>2. store \in Stores /\ StoreOK(store)
  BY <1>1, EmptyFacts DEF Stores, StoreOK
<1>3. forms \in [Keys -> Forms \cup {None}] /\ \A k \in Keys : FormOK(forms[k], store)
  BY <1>1 DEF Empty, FormOK
<1>4. srv \in [Places -> [Keys -> 0..MaxVersion]]
  BY <1>1, DraftsAssumption
<1>5. DraftsInv
  BY <1>1, <1>2, <1>3, <1>4 DEF DraftsInv
<1>6. ASSUME NEW slot \in Slots PROVE Copies(store, slot) = {}
  <2>1. slot[2] \in Keys /\ Empty[slot[2]] = None
    BY EmptyFacts DEF Slots
  <2> QED BY <1>1, <2>1 DEF Copies
<1>7. Vault!VaultInit
  BY <1>1, <1>6 DEF Vault!VaultInit, Vault!Slots, Slots
<1> QED BY <1>5, <1>7

LEMMA DraftsSteps == DraftsInv /\ [Next]_draftVars => DraftsInv' /\ VaultStep
<1> SUFFICES ASSUME DraftsInv, [Next]_draftVars PROVE DraftsInv' /\ VaultStep
  OBVIOUS
<1>1. ASSUME NEW k \in Keys, FormStep(k) PROVE DraftsInv' /\ VaultStep
  <2>1. ASSUME NEW a \in AccessAt(store.owner), Open(k, a) PROVE DraftsInv' /\ VaultStep
    BY <2>1, OpenStep
  <2>2. ASSUME NEW what \in {"save", "folder"}, Begin(k, what) PROVE DraftsInv' /\ VaultStep
    BY <2>2, BeginStep
  <2>3. ASSUME NEW status, AnswerRefused(k, status) PROVE DraftsInv' /\ VaultStep
    BY <2>3, AnswerRefusedStep
  <2> QED BY <1>1, <2>1, <2>2, <2>3, TypeStep, RestoreStep, VerifiedAbsentStep, DiscardStep, LeaveStep,
             ExpireStep, AnswerOkStep, AnswerUnknownStep DEF FormStep
<1>2. ASSUME "edit" \in Keys, NEW a \in 0..MaxAccess, UseServer(a) PROVE DraftsInv' /\ VaultStep
  BY <1>2, UseServerStep
<1>3. ASSUME NEW p \in Places, NEW k \in Keys, Elsewhere(p, k) PROVE DraftsInv' /\ VaultStep
  BY <1>3, ElsewhereStep
<1>4. ASSUME NEW o \in Owners, Confirm(o) PROVE DraftsInv' /\ VaultStep
  BY <1>4, ConfirmStep
<1>5. ASSUME UNCHANGED draftVars PROVE DraftsInv' /\ VaultStep
  <2>1. store' = store /\ forms' = forms /\ srv' = srv /\ unknown' = unknown
    BY <1>5 DEF draftVars
  <2>2. DraftsInv'
    BY <2>1 DEF DraftsInv
  <2>3. VaultStep
    BY <2>1, VaultStays DEF SameServed
  <2> QED BY <2>2, <2>3
<1> QED BY <1>1, <1>2, <1>3, <1>4, <1>5, CompareServerStep, ReloadOrganizationStep, SuspendStep, PurgeStep,
           ReloadStep DEF Next

(* The invariant of the forms, the store and the storage: what a purge     *)
(* should have erased is only kept where the store knows of it, a lease is *)
(* alive only for the owner being served, and a submission whose fate is   *)
(* unknown is marked on every copy of its form.                            *)
THEOREM DraftsInvariant == Spec => []DraftsInv
<1>1. Init => DraftsInv
  BY DraftsStarts
<1>2. DraftsInv /\ [Next]_draftVars => DraftsInv'
  BY DraftsSteps
<1> QED BY <1>1, <1>2, PTL DEF Spec

LEMMA DraftsTyped == DraftsInv => TypeOK
<1> SUFFICES ASSUME DraftsInv PROVE TypeOK
  OBVIOUS
<1>1. /\ StoreOK(store) /\ forms \in [Keys -> Forms \cup {None}]
      /\ srv \in [Places -> [Keys -> 0..MaxVersion]] /\ unknown \subseteq Slots
  BY DEF DraftsInv
<1>2. /\ store.owner \in Owners \cup {None} /\ store.active \in BOOLEAN /\ store.purgePending \in BOOLEAN
      /\ store.pending \subseteq Keys /\ store.entries \in [Keys -> Entries \cup {None}]
      /\ store.disk \in Disks \cup {None}
  BY <1>1 DEF StoreOK, Stores
<1>3. store.disk # None => store.disk.owner \in Owners /\ store.disk.entries \in [Keys -> Entries \cup {None}]
  BY <1>2 DEF Disks
<1> QED BY <1>1, <1>2, <1>3 DEF TypeOK, Slots

(* The store, the forms and the server have the types the modules of the   *)
(* page declare for them.                                                  *)
THEOREM DraftTypes == Spec => []TypeOK
BY DraftsTyped, DraftsInvariant, PTL

LEMMA DraftsKeep == DraftsInv => DraftsStayHome /\ PurgedNeverComesBack /\ SavesNameTheirBase
<1>1. DraftsInv => DraftsStayHome
  BY DEF DraftsInv, StoreOK, OfOwner, DraftsStayHome
<1>2. DraftsInv => PurgedNeverComesBack
  BY DEF DraftsInv, StoreOK, PurgedNeverComesBack
<1>3. DraftsInv => SavesNameTheirBase
  BY DEF DraftsInv, FormOK, SavesNameTheirBase, CallOf, Waiting
<1> QED BY <1>1, <1>2, <1>3

(* Whatever was still mounted when the account or the workspace changed,   *)
(* DraftStore keeps an entry, in memory and in the tab's storage, under    *)
(* the owner who typed it.                                                 *)
THEOREM WorkStaysHome == Spec => []DraftsStayHome
BY DraftsKeep, DraftsInvariant, PTL

(* DraftStore.purge: nothing typed before it is read back in this page,    *)
(* whether or not the browser erased the stored copy.                      *)
THEOREM PurgesAreFinal == Spec => []PurgedNeverComesBack
BY DraftsKeep, DraftsInvariant, PTL

(* A save names the version its content was typed on, whatever restored,   *)
(* compared, reloaded or refused drafts came before it.                    *)
THEOREM SavesAreOnTheirBase == Spec => []SavesNameTheirBase
BY DraftsKeep, DraftsInvariant, PTL

(* The forms, the store and the storage together are a vault: every step   *)
(* of theirs is a step of DraftVault, or one it does not see.              *)
THEOREM DraftsKeepTheVault == Spec => ImplementsVault
<1>1. Init => Vault!VaultInit
  BY DraftsStarts
<1>2. DraftsInv /\ [Next]_draftVars => VaultStep
  BY DraftsSteps
<1> QED BY <1>1, <1>2, DraftsInvariant, PTL DEF Spec, ImplementsVault, Vault!VaultSpec, VaultStep

----------------------------------------------------------------------------
(* What every implementation of the vault inherits, whatever its variables *)
(* are: the vault's own promise.                                           *)

VARIABLES served, offers

AnyVault == INSTANCE DraftVault WITH Nobody <- None

(* The invariant is not inductive without the type of the copies.          *)
VaultInv == AnyVault!VaultTypeOK /\ AnyVault!NeverOfferedAgain

LEMMA VaultStarts == AnyVault!VaultInit => VaultInv
BY DEF AnyVault!VaultInit, VaultInv, AnyVault!VaultTypeOK, AnyVault!NeverOfferedAgain, AnyVault!Slots, AnyVault!Offers

(* Copies that only vanish, and submissions that only stop being unknown,  *)
(* disturb nothing outside the slots of S.                                 *)
LEMMA LessIsSafe ==
    ASSUME VaultInv, NEW S, AnyVault!OnlyLess(S), NEW s \in unknown', s \notin S, s \in AnyVault!Slots
    PROVE  "unsent" \notin offers'[s]
BY DEF AnyVault!OnlyLess, VaultInv, AnyVault!NeverOfferedAgain

LEMMA VaultStepSafe ==
    ASSUME VaultInv, [AnyVault!VaultNext]_(AnyVault!vaultVars), AnyVault!VaultTypeOK'
    PROVE  AnyVault!NeverOfferedAgain'
<1> USE DEF VaultInv
<1>1. ASSUME NEW o, AnyVault!Serve(o) PROVE AnyVault!NeverOfferedAgain'
  <2> SUFFICES ASSUME NEW s \in unknown' PROVE "unsent" \notin offers'[s]
    BY DEF AnyVault!NeverOfferedAgain
  <2> QED BY <1>1, LessIsSafe DEF AnyVault!Serve, AnyVault!VaultTypeOK
<1>2. ASSUME AnyVault!Forget PROVE AnyVault!NeverOfferedAgain'
  <2> SUFFICES ASSUME NEW s \in unknown' PROVE "unsent" \notin offers'[s]
    BY DEF AnyVault!NeverOfferedAgain
  <2> QED BY <1>2, LessIsSafe DEF AnyVault!Forget, AnyVault!VaultTypeOK
<1>3. ASSUME NEW k \in Keys, AnyVault!Keep(k) PROVE AnyVault!NeverOfferedAgain'
  <2> SUFFICES ASSUME NEW s \in unknown' PROVE "unsent" \notin offers'[s]
    BY DEF AnyVault!NeverOfferedAgain
  <2>1. CASE s = <<served, k>>
    BY <1>3, <2>1 DEF AnyVault!Keep
  <2>2. CASE s # <<served, k>>
    BY <1>3, <2>2, LessIsSafe DEF AnyVault!Keep, AnyVault!VaultTypeOK
  <2> QED BY <2>1, <2>2
<1>4. ASSUME NEW k \in Keys, AnyVault!Submit(k) PROVE AnyVault!NeverOfferedAgain'
  <2> SUFFICES ASSUME NEW s \in unknown' PROVE "unsent" \notin offers'[s]
    BY DEF AnyVault!NeverOfferedAgain
  <2>1. CASE s = <<served, k>>
    BY <1>4, <2>1 DEF AnyVault!Submit
  <2>2. CASE s # <<served, k>>
    BY <1>4, <2>2, LessIsSafe DEF AnyVault!Submit, AnyVault!VaultTypeOK
  <2> QED BY <2>1, <2>2
<1>5. ASSUME NEW k \in Keys, AnyVault!Resolve(k) PROVE AnyVault!NeverOfferedAgain'
  BY <1>5 DEF AnyVault!Resolve, AnyVault!NeverOfferedAgain, AnyVault!VaultTypeOK, AnyVault!Slots
<1>6. CASE UNCHANGED AnyVault!vaultVars
  BY <1>6 DEF AnyVault!vaultVars, AnyVault!NeverOfferedAgain
<1> QED BY <1>1, <1>2, <1>3, <1>4, <1>5, <1>6 DEF AnyVault!VaultNext

LEMMA VaultStepTyped ==
    ASSUME VaultInv, [AnyVault!VaultNext]_(AnyVault!vaultVars)
    PROVE  AnyVault!VaultTypeOK'
<1> USE DEF VaultInv
<1>1. ASSUME NEW o \in Owners \cup {None}, AnyVault!Serve(o) PROVE AnyVault!VaultTypeOK'
  BY <1>1 DEF AnyVault!Serve, AnyVault!OnlyLess, AnyVault!VaultTypeOK
<1>2. ASSUME AnyVault!Forget PROVE AnyVault!VaultTypeOK'
  BY <1>2 DEF AnyVault!Forget, AnyVault!OnlyLess, AnyVault!VaultTypeOK
<1>3. ASSUME NEW k \in Keys, AnyVault!Keep(k) PROVE AnyVault!VaultTypeOK'
  BY <1>3 DEF AnyVault!Keep, AnyVault!OnlyLess, AnyVault!VaultTypeOK
<1>4. ASSUME NEW k \in Keys, AnyVault!Submit(k) PROVE AnyVault!VaultTypeOK'
  BY <1>4 DEF AnyVault!Submit, AnyVault!OnlyLess, AnyVault!VaultTypeOK, AnyVault!Slots
<1>5. ASSUME NEW k \in Keys, AnyVault!Resolve(k) PROVE AnyVault!VaultTypeOK'
  BY <1>5 DEF AnyVault!Resolve, AnyVault!VaultTypeOK
<1>6. CASE UNCHANGED AnyVault!vaultVars
  BY <1>6 DEF AnyVault!vaultVars, AnyVault!VaultTypeOK
<1> QED BY <1>1, <1>2, <1>3, <1>4, <1>5, <1>6 DEF AnyVault!VaultNext

(* In every implementation of the vault, hence in the forms, the store and *)
(* the storage of Drafts: a form sent with an answer nobody saw is never   *)
(* offered as unsent again, until its fate is known.                       *)
THEOREM VaultSafe == AnyVault!VaultSpec => []AnyVault!NeverOfferedAgain
<1>1. AnyVault!VaultInit => VaultInv
  BY VaultStarts
<1>2. VaultInv /\ [AnyVault!VaultNext]_(AnyVault!vaultVars) => VaultInv'
  BY VaultStepTyped, VaultStepSafe DEF VaultInv
<1> QED BY <1>1, <1>2, PTL DEF AnyVault!VaultSpec, VaultInv

(* The drafts of a tab inherit it: a form sent with an answer nobody saw   *)
(* is not offered as unsent again, not even after a reload, until its fate *)
(* is known.                                                               *)
THEOREM SentIsNotUnsent == Spec => []Vault!NeverOfferedAgain
<1>1. DraftsInv => Vault!NeverOfferedAgain
  BY VaultState DEF DraftsInv, UnknownOK, Vault!NeverOfferedAgain
<1> QED BY <1>1, DraftsInvariant, PTL

----------------------------------------------------------------------------
(* The workspace shown in the tab drives the store: the invariant of       *)
(* Workspace, for any accounts, Bars and forms. What is shown is served and*)
(* remembered; every lookup still says for whom it was made; and a command *)
(* whose answer will be adopted has its workspace shown, and cannot be     *)
(* under way while another workspace is being entered.                     *)

Contexts == [place : Places, access : 0..MaxAccess]

WorkTypes ==
    /\ auth \in Users \cup {NoUser}
    /\ ctx \in Contexts \cup {None}
    /\ chosen \in [user : Users, place : Bars] \cup {None}
    /\ lookups \subseteq Lookups
    /\ sent \in [Keys -> {"kept", "stale", "local"}]
    /\ access \in [Bars -> 0..MaxAccess]
    /\ asked \in Owners \cup {None}

ShownOK ==
    ctx # None =>
        /\ auth \in Users /\ ctx.place \in Bars \cup {Home[auth]}
        /\ store.active /\ store.owner = At(auth, ctx.place)
        /\ chosen = IF ctx.place \in Bars THEN At(auth, ctx.place) ELSE None

ServedOK == store.active => auth \in Users /\ store.owner.user = auth

\* Only a selection outlives a change of context, and then opens nothing.
LookupOK(l) ==
    /\ l.why # "navigate" => l.place \in Bars
    /\ l.why # "select" => l.fresh
    /\ l.why = "confirm" => ctx = None /\ auth \in Users /\ chosen = At(auth, l.place)
    /\ l.why = "select" /\ l.fresh => auth \in Users /\ asked = At(auth, l.place)
    /\ l.why \in {"verify", "recheck"} => ctx # None /\ ctx.place = l.place

CommandsOK ==
    /\ Transitioning => ~PendingCommands
    /\ \A k \in Carried : Waiting(k) /\ sent[k] = "kept" => ctx # None

WorkInv ==
    /\ DraftsInv /\ WorkTypes
    /\ ShownOK /\ ServedOK
    /\ \A l \in lookups : LookupOK(l)
    /\ CommandsOK

\* What a step may open, and what it may make of the answers awaited.
OpensRight ==
    Opens => \/ asked' = At(auth', ctx'.place)
             \/ ctx = None /\ auth = auth' /\ chosen = At(auth, ctx'.place)

AnswersKept ==
    (\E k \in Carried : sent[k] = "kept" /\ sent'[k] = "stale")
        => ctx' = None \/ (ctx # None /\ ctx.place = ctx'.place /\ ctx.place \notin Bars)

WorkStep == WorkInv' /\ VaultStep /\ OpensRight /\ AnswersKept

\* No command begins.
Quiet == \A k \in Keys : Waiting(k)' => Waiting(k)

LEMMA PlacesFacts ==
    /\ \A u \in Users : /\ Home[u] \in Places /\ Home[u] \notin Bars
                        /\ At(u, Home[u]) \in Owners /\ At(u, Home[u]) \in Personal
    /\ \A u \in Users, p \in Bars : p \in Places /\ At(u, p) \in Owners /\ At(u, p) \notin Personal
                                    /\ At(u, p) \in [user : Users, place : Bars]
    /\ \A u, p : At(u, p).user = u /\ At(u, p).place = p /\ At(u, p) # None
    /\ NoUser \notin Users
    /\ None \notin Contexts
<1>1. \A u \in Users : /\ Home[u] \in Places /\ Home[u] \notin Bars
                       /\ At(u, Home[u]) \in Owners /\ At(u, Home[u]) \in Personal
  BY WorkspaceAssumption, DraftsAssumption DEF Bars
<1>2. \A u \in Users, p \in Bars : p \in Places /\ At(u, p) \in Owners /\ At(u, p) \notin Personal
  BY WorkspaceAssumption DEF Bars
<1>3. \A u, p : At(u, p).user = u /\ At(u, p).place = p /\ DOMAIN At(u, p) = {"user", "place"}
  BY DEF At
<1>4. \A u \in Users, p \in Bars : At(u, p) \in [user : Users, place : Bars]
  BY DEF At
<1>5. DOMAIN None = {"none"} /\ {"none"} # {"user", "place"} /\ {"none"} # {"place", "access"}
  BY DEF None
<1>6. \A u, p : At(u, p) # None
  BY <1>3, <1>5
<1>7. \A c \in Contexts : DOMAIN c = {"place", "access"}
  BY DEF Contexts
<1> QED BY <1>1, <1>2, <1>3, <1>4, <1>5, <1>6, <1>7, WorkspaceAssumption

\* A form that goes on waiting, or stops.
LEMMA QuietForm ==
    ASSUME DraftsInv, NEW k \in Keys, NEW g, forms' = [forms EXCEPT ![k] = g],
           g # None => g.pending = "no" \/ (forms[k] # None /\ g.pending = forms[k].pending)
    PROVE  Quiet
<1> SUFFICES ASSUME NEW j \in Keys, Waiting(j)' PROVE Waiting(j)
  BY DEF Quiet
<1>1. forms'[j] = IF j = k THEN g ELSE forms[j]
  BY DEF DraftsInv
<1> QED BY <1>1 DEF Waiting

LEMMA QuietLeases ==
    ASSUME DraftsInv, forms' = EndLeases(forms)
    PROVE  Quiet
<1> SUFFICES ASSUME NEW j \in Keys, Waiting(j)' PROVE Waiting(j)
  BY DEF Quiet
<1>1. CASE forms[j] = None
  BY <1>1 DEF EndLeases, Waiting
<1>2. CASE forms[j] # None
  <2>1. PICK f \in Forms : f = forms[j]
    BY <1>2 DEF DraftsInv
  <2>2. forms'[j] = [f EXCEPT !.leased = FALSE]
    BY <1>2, <2>1 DEF EndLeases
  <2>3. [f EXCEPT !.leased = FALSE].pending = f.pending
    BY DEF Forms
  <2> QED BY <1>2, <2>1, <2>2, <2>3 DEF Waiting
<1> QED BY <1>1, <1>2

LEMMA QuietStays == ASSUME forms' = forms PROVE Quiet
BY DEF Quiet, Waiting

\* generation++: no answer awaited before it is kept, and of the lookups only
\* a selection and a navigation are left.
LEMMA EpochFacts ==
    ASSUME WorkInv, NEW added, NewEpoch(added), Quiet
    PROVE  /\ sent' \in [Keys -> {"kept", "stale", "local"}]
           /\ \A k \in Carried : Waiting(k)' => sent'[k] # "kept"
           /\ \A k \in Carried : sent[k] = "kept" /\ sent'[k] = "stale" => Waiting(k)
           /\ added \subseteq lookups'
           /\ \A l \in lookups' \ added :
                 /\ l \in Lookups /\ l.why \in {"select", "navigate"} /\ Transitioning
                 /\ l.why = "select" => ~l.fresh /\ l.place \in Bars
                 /\ l.why = "navigate" => l.fresh
<1>1. sent \in [Keys -> {"kept", "stale", "local"}] /\ Carried \subseteq Keys
  BY DEF WorkInv, WorkTypes, Carried
<1>2. sent' = [k \in Keys |-> IF k \in Carried /\ Waiting(k) /\ sent[k] = "kept" THEN "stale" ELSE sent[k]]
  BY DEF NewEpoch
<1>3. /\ sent' \in [Keys -> {"kept", "stale", "local"}]
      /\ \A k \in Carried : Waiting(k) => sent'[k] # "kept"
      /\ \A k \in Carried : sent[k] = "kept" /\ sent'[k] = "stale" => Waiting(k)
  BY <1>1, <1>2
<1>4. \A k \in Carried : Waiting(k)' => sent'[k] # "kept"
  BY <1>1, <1>3 DEF Quiet
<1>5. added \subseteq lookups'
  BY DEF NewEpoch
<1>6. ASSUME NEW l \in lookups', l \notin added
      PROVE  /\ l \in Lookups /\ l.why \in {"select", "navigate"} /\ Transitioning
             /\ l.why = "select" => ~l.fresh /\ l.place \in Bars
             /\ l.why = "navigate" => l.fresh
  <2>1. PICK m \in lookups : m.why \in {"select", "navigate"} /\ l = [m EXCEPT !.fresh = m.why = "navigate"]
    BY <1>6 DEF NewEpoch
  <2>2. m \in Lookups /\ LookupOK(m) /\ Transitioning
    BY <2>1 DEF WorkInv, WorkTypes, Transitioning
  <2>3. PICK b \in BOOLEAN : b = (m.why = "navigate")
    OBVIOUS
  <2>4. l = [m EXCEPT !.fresh = b]
    BY <2>1, <2>3
  <2>5. l \in Lookups /\ l.why = m.why /\ l.place = m.place /\ l.fresh = b
    BY <2>2, <2>4 DEF Lookups
  <2> QED BY <2>1, <2>2, <2>3, <2>5 DEF LookupOK
<1> QED BY <1>3, <1>4, <1>5, <1>6

LEMMA CleanedRests == \A f, v : f \in Forms => Cleaned(f, v).pending = "no"
BY DEF Cleaned, Forms

\* Whatever a page does but send a command, no form begins to wait.
LEMMA QuietPages ==
    ASSUME DraftsInv, NEW k \in Keys,
           \/ \E a : Open(k, a)
           \/ Type(k) \/ Restore(k) \/ VerifiedAbsent(k) \/ Discard(k) \/ Leave(k)
           \/ k = "edit" /\ forms[k] # None /\ (CompareServer \/ \E a : UseServer(a))
           \/ k = "organize" /\ ReloadOrganization
    PROVE  Quiet
<1>1. forms[k] # None => forms[k] \in Forms
  BY DEF DraftsInv
<1>2. ASSUME NEW a, Open(k, a) PROVE Quiet
  <2>1. PICK g : SetForm(k, g) /\ g.pending = "no"
    BY <1>2 DEF Open
  <2> QED BY <2>1, QuietForm DEF SetForm
<1>3. CASE Type(k)
  <2>1. PICK f \in Forms : f = forms[k] /\ f # None
    BY <1>1, <1>3 DEF Type
  <2>2. SetForm(k, [f EXCEPT !.dirty = TRUE])
    BY <1>3, <2>1 DEF Type
  <2>3. [f EXCEPT !.dirty = TRUE].pending = f.pending
    BY DEF Forms
  <2> QED BY <2>1, <2>2, <2>3, QuietForm DEF SetForm
<1>4. CASE Restore(k)
  <2>1. PICK f \in Forms : f = forms[k] /\ f # None
    BY <1>1, <1>4 DEF Restore
  <2>2. PICK g : SetForm(k, g) /\ (g = Restored(f, store.entries[k]) \/ g = [f EXCEPT !.candidate = FALSE])
    BY <1>4, <2>1 DEF Restore
  <2>3. g.pending = f.pending
    BY <2>2 DEF Forms, Restored
  <2> QED BY <2>1, <2>2, <2>3, QuietForm DEF SetForm
<1>5. CASE VerifiedAbsent(k)
  <2>1. PICK f \in Forms : f = forms[k] /\ f # None
    BY <1>1, <1>5 DEF VerifiedAbsent
  <2>2. SetForm(k, [f EXCEPT !.uncertain = FALSE])
    BY <1>5, <2>1 DEF VerifiedAbsent
  <2>3. [f EXCEPT !.uncertain = FALSE].pending = f.pending
    BY DEF Forms
  <2> QED BY <2>1, <2>2, <2>3, QuietForm DEF SetForm
<1>6. CASE Discard(k)
  <2>1. PICK f \in Forms : f = forms[k] /\ SetForm(k, Cleaned(f, f.loaded))
    BY <1>1, <1>6 DEF Discard, Succeeded
  <2> QED BY <2>1, CleanedRests, QuietForm DEF SetForm
<1>7. CASE Leave(k)
  BY <1>7, QuietForm DEF Leave, SetForm
<1>8. CASE k = "edit" /\ forms[k] # None /\ CompareServer
  <2>1. PICK f \in Forms : f = forms["edit"] /\ \E v : SetForm("edit", [f EXCEPT !.seen = v])
    BY <1>1, <1>8 DEF CompareServer
  <2>2. PICK v : SetForm("edit", [f EXCEPT !.seen = v])
    BY <2>1
  <2>3. [f EXCEPT !.seen = v].pending = f.pending
    BY DEF Forms
  <2> QED BY <1>8, <2>1, <2>2, <2>3, QuietForm DEF SetForm
<1>9. ASSUME NEW a, k = "edit", forms[k] # None, UseServer(a) PROVE Quiet
  <2>1. PICK f \in Forms : f = forms["edit"] /\ f.pending = "no"
    BY <1>1, <1>9 DEF UseServer
  <2>2. PICK h, v : h = [f EXCEPT !.shown = a] /\ SetForm("edit", Cleaned(h, v))
    BY <1>9, <2>1 DEF UseServer, Succeeded
  <2>3. PICK g : g = Cleaned(h, v)
    OBVIOUS
  <2>4. g.pending = "no"
    BY <2>2, <2>3 DEF Cleaned, Forms
  <2> QED BY <1>9, <2>2, <2>3, <2>4, QuietForm DEF SetForm
<1>10. CASE k = "organize" /\ ReloadOrganization
  <2>1. PICK f \in Forms : f = forms["organize"] /\ \E v : SetForm("organize", Cleaned(f, v))
    BY <1>1, <1>10 DEF ReloadOrganization, Succeeded
  <2>2. PICK v : SetForm("organize", Cleaned(f, v))
    BY <2>1
  <2>3. PICK g : g = Cleaned(f, v) /\ g.pending = "no"
    BY CleanedRests
  <2> QED BY <1>10, <2>2, <2>3, QuietForm DEF SetForm
<1> QED BY <1>2, <1>3, <1>4, <1>5, <1>6, <1>7, <1>8, <1>9, <1>10

\* The server's answer ends the wait of its form.
LEMMA QuietAnswers ==
    ASSUME DraftsInv, NEW k \in Keys, AnswerOk(k) \/ AnswerUnknown(k) \/ \E status : AnswerRefused(k, status)
    PROVE  Quiet
<1>1. PICK f \in Forms : f = forms[k] /\ f # None
  BY DEF DraftsInv, AnswerOk, AnswerUnknown, AnswerRefused, Waiting
<1>2. [f EXCEPT !.pending = "no"].pending = "no"
  BY DEF Forms
<1>3. CASE AnswerUnknown(k)
  BY <1>1, <1>2, <1>3, QuietForm DEF AnswerUnknown, SetForm
<1>4. ASSUME NEW status, AnswerRefused(k, status) PROVE Quiet
  <2>1. CASE ~Heard(k)
    BY <1>1, <1>2, <1>4, <2>1, QuietForm DEF AnswerRefused, SetForm
  <2>2. CASE Heard(k)
    <3>1. PICK c, d : SetForm(k, [[f EXCEPT !.pending = "no"] EXCEPT !.uncertain = FALSE, !.conflict = c, !.held = d])
      BY <1>1, <1>4, <2>2 DEF AnswerRefused
    <3>2. PICK g : g = [[f EXCEPT !.pending = "no"] EXCEPT !.uncertain = FALSE, !.conflict = c, !.held = d]
      OBVIOUS
    <3>3. g.pending = "no"
      BY <3>2 DEF Forms
    <3> QED BY <3>1, <3>2, <3>3, QuietForm DEF SetForm
  <2> QED BY <2>1, <2>2
<1>5. CASE AnswerOk(k)
  <2>1. CASE ~Heard(k)
    BY <1>1, <1>2, <1>5, <2>1, QuietForm DEF AnswerOk, SetForm
  <2>2. CASE Heard(k) /\ f.pending = "folder"
    <3>1. PICK g : g = [f EXCEPT !.pending = "no", !.uncertain = FALSE] /\ SetForm(k, g)
      BY <1>1, <1>5, <2>2 DEF AnswerOk
    <3>2. g.pending = "no"
      BY <3>1 DEF Forms
    <3> QED BY <3>1, <3>2, QuietForm DEF SetForm
  <2>3. CASE Heard(k) /\ f.pending # "folder"
    <3>1. PICK g, v : SetForm(k, g) /\ g \in {None, Cleaned(f, v)}
      BY <1>1, <1>5, <2>3 DEF AnswerOk, Succeeded
    <3> QED BY <3>1, CleanedRests, QuietForm DEF SetForm
  <2> QED BY <2>1, <2>2, <2>3
<1> QED BY <1>3, <1>4, <1>5

\* Beginning a command makes its own form wait, and no other.
LEMMA BeginWaits ==
    ASSUME DraftsInv, NEW k \in Keys, NEW what, Begin(k, what)
    PROVE  \A j \in Keys \ {k} : Waiting(j)' => Waiting(j)
<1>1. PICK g : SetForm(k, g)
  BY DEF Begin
<1>2. \A j \in Keys \ {k} : forms'[j] = forms[j]
  BY <1>1 DEF SetForm, DraftsInv
<1> QED BY <1>2 DEF Waiting

----------------------------------------------------------------------------
(* What the workspace makes of the store.                                  *)

LEMMA SourceFacts ==
    ASSUME DraftsInv
    PROVE  /\ Source(store)
           /\ \A s \in Purge(store) : Source(s)
           /\ \A s : Source(s) => Source(Suspend(s))
<1>1. Source(store)
  BY DEF Source, DraftsInv
<1>2. ASSUME NEW s \in Purge(store) PROVE Source(s)
  BY <1>2, PurgeFacts DEF DraftsInv, Source, Handed
<1>3. ASSUME NEW s, Source(s) PROVE Source(Suspend(s))
  <2>1. PICK t : t = Suspend(s)
    OBVIOUS
  <2>2. /\ t \in Stores /\ t.owner = s.owner /\ ~t.active /\ t.entries = s.entries /\ t.disk = s.disk
        /\ t.purgePending = s.purgePending
    BY <1>3, <2>1 DEF Source, Suspend, StoreOK, Stores
  <2>3. StoreOK(t)
    BY <1>3, <2>2 DEF Source, StoreOK
  <2>4. \A slot : Copies(t, slot) = Copies(s, slot)
    BY <2>2 DEF Copies
  <2> QED BY <1>3, <2>1, <2>2, <2>3, <2>4 DEF Source
<1> QED BY <1>1, <1>2, <1>3

\* The workspace is installed: its drafts are served, and nobody else's.
LEMMA InstallStep ==
    ASSUME WorkInv, NEW u \in Users, NEW p \in Bars \cup {Home[u]}, NEW a \in 0..MaxAccess,
           NEW from, Source(from), Install(u, p, a, from)
    PROVE  /\ DraftsInv' /\ VaultStep /\ Quiet
           /\ store'.active /\ store'.owner = At(u, p)
           /\ ctx' \in Contexts /\ ctx'.place = p
           /\ chosen' = IF p \in Bars THEN At(u, p) ELSE None
           /\ chosen' \in [user : Users, place : Bars] \cup {None}
<1>1. At(u, p) \in Owners /\ p \in Places
  BY PlacesFacts
<1>2. DraftsInv
  BY DEF WorkInv
<1>3. PICK moved : \E t \in ConfirmIdentity(IF moved THEN Suspend(from) ELSE from, At(u, p)) :
                      Drive(t, moved \/ store.owner # At(u, p) \/ from # store)
  BY DEF Install
<1>4. PICK r : Source(r) /\ \E t \in ConfirmIdentity(r, At(u, p)) : Drive(t, moved \/ store.owner # At(u, p) \/ from # store)
  <2>1. Source(Suspend(from))
    BY <1>2, SourceFacts
  <2> QED BY <1>3, <2>1
<1>5. PICK t \in ConfirmIdentity(r, At(u, p)) : Drive(t, moved \/ store.owner # At(u, p) \/ from # store)
  BY <1>4
<1>6. SetStore(t, unknown) /\ UNCHANGED srv /\ (forms' = EndLeases(forms) \/ (forms' = forms /\ store.owner = At(u, p)))
  BY <1>5 DEF Drive
<1>7. DraftsInv' /\ VaultStep /\ store'.active /\ store'.owner = At(u, p)
  BY <1>1, <1>2, <1>4, <1>5, <1>6, HandOverStep
<1>8. Quiet
  BY <1>2, <1>6, QuietLeases, QuietStays
<1>9. ctx' = [place |-> p, access |-> a] /\ chosen' = IF p \in Bars THEN At(u, p) ELSE None
  BY DEF Install
<1>10. ctx' \in Contexts /\ ctx'.place = p
  BY <1>1, <1>9 DEF Contexts
<1>11. chosen' \in [user : Users, place : Bars] \cup {None}
  BY <1>9, PlacesFacts
<1> QED BY <1>7, <1>8, <1>9, <1>10, <1>11

\* The drafts are suspended, or purged: nobody's are served.
LEMMA DriveStep ==
    ASSUME DraftsInv, Drive(Suspend(store), TRUE) \/ \E s \in Purge(store) : Drive(s, TRUE)
    PROVE  DraftsInv' /\ VaultStep /\ Quiet /\ ~store'.active
<1>1. CASE Drive(Suspend(store), TRUE)
  <2>1. /\ store' = Suspend(store) /\ forms' = EndLeases(forms) /\ UNCHANGED srv
        /\ unknown' = {slot \in unknown : Left(store', slot)}
    <3>1. PICK s : s = Suspend(store)
      OBVIOUS
    <3>2. SetStore(s, unknown) /\ forms' = EndLeases(forms) /\ UNCHANGED srv
      BY <1>1, <3>1 DEF Drive
    <3>3. store' = s /\ unknown' = {slot \in unknown : Left(store', slot)}
      BY <3>2 DEF SetStore, Left
    <3> QED BY <3>1, <3>2, <3>3
  <2>2. store \in Stores
    BY DEF DraftsInv, StoreOK
  <2>3. ~store'.active /\ store'.owner = store.owner /\ store'.entries = store.entries /\ store'.disk = store.disk
    BY <2>1, <2>2 DEF Suspend, Stores
  <2>4. unknown' = unknown
    <3>1. \A slot : Copies(store', slot) = Copies(store, slot)
      BY <2>3 DEF Copies
    <3>2. \A slot \in unknown : Left(store, slot)
      BY DEF DraftsInv, UnknownOK
    <3> QED BY <2>1, <3>1, <3>2 DEF Left
  <2>5. SuspendDrafts
    BY <2>1, <2>4 DEF SuspendDrafts
  <2> QED BY <2>1, <2>3, <2>5, SuspendStep, QuietLeases
<1>2. ASSUME NEW s \in Purge(store), Drive(s, TRUE) PROVE DraftsInv' /\ VaultStep /\ Quiet /\ ~store'.active
  <2>1. PurgeDrafts /\ forms' = EndLeases(forms) /\ store' = s
    BY <1>2 DEF Drive, PurgeDrafts, SetStore
  <2>2. ~s.active
    BY <1>2, PurgeFacts DEF Handed, DraftsInv
  <2> QED BY <2>1, <2>2, PurgeStep, QuietLeases
<1> QED BY <1>1, <1>2

----------------------------------------------------------------------------
(* The kinds of steps the workspace takes.                                 *)

LEMMA DraftsStay ==
    ASSUME DraftsInv, UNCHANGED draftVars
    PROVE  DraftsInv' /\ VaultStep /\ SameServed /\ Quiet
<1>1. store' = store /\ forms' = forms /\ srv' = srv /\ unknown' = unknown
  BY DEF draftVars
<1>2. DraftsInv'
  BY <1>1 DEF DraftsInv
<1>3. VaultStep /\ SameServed
  BY <1>1, VaultStays DEF SameServed
<1>4. Quiet
  BY <1>1, QuietStays
<1> QED BY <1>2, <1>3, <1>4

\* The same workspace of the same account is shown, or none still.
LEMMA SameContext ==
    ASSUME WorkInv, DraftsInv', VaultStep, SameServed, UNCHANGED <<auth, ctx, chosen, asked>>,
           access' \in [Bars -> 0..MaxAccess], sent' \in [Keys -> {"kept", "stale", "local"}],
           lookups' \subseteq Lookups,
           \A l \in lookups' \ lookups : /\ ctx # None /\ ctx.place \in Bars
                                         /\ l.why \in {"verify", "recheck"} /\ l.place = ctx.place /\ l.fresh,
           Transitioning => Quiet,
           \A k \in Carried : Waiting(k)' /\ sent'[k] = "kept" => ctx # None,
           \A k \in Carried : sent[k] = "kept" => sent'[k] # "stale"
    PROVE  WorkStep
<1>1. WorkTypes'
  BY DEF WorkInv, WorkTypes
<1>2. ShownOK' /\ ServedOK'
  BY DEF WorkInv, ShownOK, ServedOK, SameServed
<1>3. ASSUME NEW l \in lookups' PROVE LookupOK(l)'
  <2>1. CASE l \in lookups
    <3>1. LookupOK(l)
      BY <2>1 DEF WorkInv
    <3> QED BY <3>1 DEF LookupOK
  <2>2. CASE l \notin lookups
    BY <1>3, <2>2 DEF LookupOK
  <2> QED BY <2>1, <2>2
<1>4. CommandsOK'
  <2>1. ASSUME Transitioning' PROVE ~PendingCommands'
    <3>1. Transitioning
      BY <2>1 DEF Transitioning
    <3>2. ~PendingCommands /\ Quiet
      BY <3>1 DEF WorkInv, CommandsOK
    <3> QED BY <3>2 DEF PendingCommands, Quiet, Carried
  <2> QED BY <2>1 DEF CommandsOK
<1>5. OpensRight
  BY DEF OpensRight, Opens
<1>6. AnswersKept
  BY DEF AnswersKept
<1> QED BY <1>1, <1>2, <1>3, <1>4, <1>5, <1>6 DEF WorkStep, WorkInv

\* A new generation of the context.
LEMMA EpochStep ==
    ASSUME WorkInv, DraftsInv', VaultStep, Quiet, NEW added \in SUBSET Lookups, NewEpoch(added),
           auth' \in Users \cup {NoUser}, ctx' \in Contexts \cup {None},
           chosen' \in [user : Users, place : Bars] \cup {None},
           access' \in [Bars -> 0..MaxAccess], asked' \in Owners \cup {None},
           ShownOK', ServedOK', OpensRight,
           \A l \in added : LookupOK(l)' /\ (l.why \in {"select", "navigate"} => ~PendingCommands),
           (\E k \in Carried : Waiting(k) /\ sent[k] = "kept") =>
              ctx' = None \/ (ctx # None /\ ctx.place = ctx'.place /\ ctx.place \notin Bars)
    PROVE  WorkStep
<1>1. /\ sent' \in [Keys -> {"kept", "stale", "local"}]
      /\ \A k \in Carried : Waiting(k)' => sent'[k] # "kept"
      /\ \A k \in Carried : sent[k] = "kept" /\ sent'[k] = "stale" => Waiting(k)
      /\ \A l \in lookups' \ added :
                 /\ l \in Lookups /\ l.why \in {"select", "navigate"} /\ Transitioning
                 /\ l.why = "select" => ~l.fresh /\ l.place \in Bars
                 /\ l.why = "navigate" => l.fresh
  BY EpochFacts
<1>2. WorkTypes'
  BY <1>1 DEF WorkTypes
<1>3. ASSUME NEW l \in lookups' PROVE LookupOK(l)'
  BY <1>1, <1>3 DEF LookupOK
<1>4. CommandsOK'
  <2>1. ASSUME Transitioning' PROVE ~PendingCommands'
    <3>1. PICK l \in lookups' : l.why \in {"select", "navigate"}
      BY <2>1 DEF Transitioning
    <3>2. ~PendingCommands
      <4>1. CASE l \in added
        BY <3>1, <4>1
      <4>2. CASE l \notin added
        BY <1>1, <4>2 DEF WorkInv, CommandsOK
      <4> QED BY <4>1, <4>2
    <3> QED BY <3>2 DEF PendingCommands, Quiet, Carried
  <2> QED BY <1>1, <2>1 DEF CommandsOK
<1>5. AnswersKept
  BY <1>1 DEF AnswersKept
<1> QED BY <1>2, <1>3, <1>4, <1>5 DEF WorkStep, WorkInv

\* The context is withdrawn.
LEMMA CloseStep ==
    ASSUME WorkInv, DraftsInv', VaultStep, Quiet, ~store'.active, ctx' = None, NewEpoch({}),
           auth' \in Users \cup {NoUser}, chosen' \in {chosen, None},
           access' = access, asked' \in {asked, None}
    PROVE  WorkStep
<1>1. ShownOK' /\ ServedOK' /\ OpensRight
  BY DEF ShownOK, ServedOK, OpensRight, Opens
<1>2. /\ chosen' \in [user : Users, place : Bars] \cup {None} /\ access' \in [Bars -> 0..MaxAccess]
      /\ asked' \in Owners \cup {None} /\ ctx' \in Contexts \cup {None}
  BY DEF WorkInv, WorkTypes
<1>3. {} \in SUBSET Lookups
  OBVIOUS
<1> QED BY <1>1, <1>2, <1>3, EpochStep

\* At most the navigation to a new workspace is awaited.
LEMMA FreshStep ==
    ASSUME WorkInv, DraftsInv', VaultStep,
           auth' \in Users \cup {NoUser}, ctx' \in Contexts \cup {None},
           chosen' \in [user : Users, place : Bars] \cup {None},
           access' \in [Bars -> 0..MaxAccess], asked' \in Owners \cup {None},
           sent' \in [Keys -> {"kept", "stale", "local"}],
           ShownOK', ServedOK', OpensRight, AnswersKept,
           \A l \in lookups' : l \in Lookups /\ l.why = "navigate" /\ l.fresh,
           lookups' = {} \/ ~PendingCommands',
           \A k \in Carried : Waiting(k)' /\ sent'[k] = "kept" => ctx' # None
    PROVE  WorkStep
<1>1. WorkTypes'
  BY DEF WorkTypes
<1>2. \A l \in lookups' : LookupOK(l)'
  BY DEF LookupOK
<1>3. CommandsOK'
  BY DEF CommandsOK, Transitioning
<1> QED BY <1>1, <1>2, <1>3 DEF WorkStep, WorkInv

----------------------------------------------------------------------------
(* The actions of the pages and of the server.                             *)

LEMMA LookupFacts ==
    /\ \A why \in {"confirm", "select", "verify", "recheck"}, p \in Bars :
          [why |-> why, place |-> p, fresh |-> TRUE] \in Lookups
    /\ \A p \in Places : [why |-> "navigate", place |-> p, fresh |-> TRUE] \in Lookups
BY DEF Lookups, Bars

LEMMA PageAccess ==
    ASSUME WorkInv, NEW k, ctx # None
    PROVE  ReadAccess(k) \in AccessAt(store.owner) /\ ReadAccess(k) \in 0..MaxAccess
<1>1. /\ auth \in Users /\ ctx.place \in Bars \cup {Home[auth]} /\ store.owner = At(auth, ctx.place)
      /\ ctx \in Contexts /\ access \in [Bars -> 0..MaxAccess] /\ MaxAccess \in Nat
  BY DraftsAssumption DEF WorkInv, WorkTypes, ShownOK
<1>2. CASE ctx.place \in Bars
  <2>1. ctx.access \in 0..MaxAccess /\ access[ctx.place] \in 0..MaxAccess /\ store.owner \notin Personal
    BY <1>1, <1>2, PlacesFacts DEF Contexts
  <2> QED BY <1>2, <2>1 DEF ReadAccess, InBar, AccessAt
<1>3. CASE ctx.place \notin Bars
  BY <1>1, <1>3 DEF ReadAccess, InBar, AccessAt
<1> QED BY <1>2, <1>3

LEMMA FormUsedWork ==
    ASSUME WorkInv, NEW k \in Keys, FormUsed(k)
    PROVE  WorkStep
<1>1. DraftsInv /\ ctx # None /\ UNCHANGED contextVars
  BY DEF WorkInv, FormUsed, Shown
<1>2. ReadAccess(k) \in AccessAt(store.owner) /\ ReadAccess(k) \in 0..MaxAccess
  BY <1>1, PageAccess
<1>3. \/ Open(k, ReadAccess(k)) \/ Type(k) \/ Restore(k) \/ VerifiedAbsent(k) \/ Discard(k)
      \/ k = "edit" /\ forms[k] # None /\ (CompareServer \/ \E a \in {forms[k].shown, ReadAccess(k)} : UseServer(a))
      \/ k = "organize" /\ ReloadOrganization
  BY DEF FormUsed
<1>4. Quiet
  BY <1>1, <1>3, QuietPages
<1>5. DraftsInv' /\ VaultStep /\ SameServed
  <2>1. ASSUME k = "edit", forms[k] # None, NEW a \in {forms[k].shown, ReadAccess(k)}, UseServer(a)
        PROVE  DraftsInv' /\ VaultStep /\ SameServed
    <3>1. forms[k].shown \in 0..MaxAccess
      BY <1>1, <2>1, KnownFacts DEF Forms
    <3> QED BY <1>1, <1>2, <2>1, <3>1, UseServerStep
  <2> QED BY <1>1, <1>2, <1>3, <2>1, OpenStep, TypeStep, RestoreStep, VerifiedAbsentStep, DiscardStep,
             CompareServerStep, ReloadOrganizationStep
<1> QED BY <1>1, <1>4, <1>5, SameContext DEF contextVars, WorkInv, WorkTypes, CommandsOK, Quiet, Carried

LEMMA FormLeftWork ==
    ASSUME WorkInv, NEW k \in Keys, FormLeft(k)
    PROVE  WorkStep
<1>1. DraftsInv /\ UNCHANGED contextVars /\ Leave(k)
  BY DEF WorkInv, FormLeft
<1>2. DraftsInv' /\ VaultStep /\ SameServed /\ Quiet
  BY <1>1, LeaveStep, QuietPages
<1> QED BY <1>1, <1>2, SameContext DEF contextVars, WorkInv, WorkTypes, CommandsOK, Quiet, Carried

LEMMA ElsewhereWork ==
    ASSUME WorkInv, NEW p \in Places, NEW k \in Keys, ElsewhereEdited(p, k)
    PROVE  WorkStep
<1>1. DraftsInv /\ UNCHANGED contextVars /\ Elsewhere(p, k)
  BY DEF WorkInv, ElsewhereEdited
<1>2. DraftsInv' /\ VaultStep /\ SameServed /\ Quiet
  BY <1>1, ElsewhereStep, QuietStays DEF Elsewhere
<1> QED BY <1>1, <1>2, SameContext DEF contextVars, WorkInv, WorkTypes, CommandsOK, Quiet, Carried

LEMMA AccessWork ==
    ASSUME WorkInv, NEW b \in Bars, NEW u \in Users, AccessMoves(b, u)
    PROVE  WorkStep
<1>1. DraftsInv' /\ VaultStep /\ SameServed /\ Quiet
  BY DraftsStay DEF WorkInv, AccessMoves
<1>2. access' \in [Bars -> 0..MaxAccess]
  <2>1. access \in [Bars -> 0..MaxAccess] /\ MaxAccess \in Nat /\ access[b] < MaxAccess
        /\ access' = [access EXCEPT ![b] = @ + 1]
    BY DraftsAssumption DEF WorkInv, WorkTypes, AccessMoves
  <2>2. access[b] + 1 \in 0..MaxAccess
    BY <2>1
  <2> QED BY <2>1, <2>2
<1> QED BY <1>1, <1>2, SameContext DEF AccessMoves, WorkInv, WorkTypes, CommandsOK, Quiet, Carried

\* A command begins only where a workspace is shown and none is being entered.
LEMMA CommandWork ==
    ASSUME WorkInv, NEW k \in Keys, NEW what \in {"save", "folder"}, Command(k, what)
    PROVE  WorkStep
<1>1. DraftsInv /\ ctx # None /\ ~Transitioning /\ Begin(k, what)
  BY DEF WorkInv, Command, Shown
<1>2. DraftsInv' /\ VaultStep /\ SameServed
  BY <1>1, BeginStep
<1>3. sent \in [Keys -> {"kept", "stale", "local"}] /\ lookups \subseteq Lookups /\ access \in [Bars -> 0..MaxAccess]
  BY DEF WorkInv, WorkTypes
<1>4. PICK how \in {"kept", "local"} : sent' = [sent EXCEPT ![k] = how]
  BY DEF Command
<1>5. /\ sent' \in [Keys -> {"kept", "stale", "local"}]
      /\ \A j \in Keys : sent[j] = "kept" => sent'[j] # "stale"
  BY <1>3, <1>4
<1> QED BY <1>1, <1>2, <1>3, <1>5, SameContext DEF Command, Carried

LEMMA CommandDoneWork ==
    ASSUME WorkInv, NEW k \in Keys, CommandDone(k)
    PROVE  WorkStep
<1>1. DraftsInv /\ UNCHANGED contextVars /\ AnswerOk(k)
  BY DEF WorkInv, CommandDone
<1>2. DraftsInv' /\ VaultStep /\ SameServed /\ Quiet
  BY <1>1, AnswerOkStep, QuietAnswers
<1> QED BY <1>1, <1>2, SameContext DEF contextVars, WorkInv, WorkTypes, CommandsOK, Quiet, Carried

LEMMA CommandUnknownWork ==
    ASSUME WorkInv, NEW k \in Keys, CommandUnknown(k)
    PROVE  WorkStep
<1>1. DraftsInv /\ UNCHANGED contextVars /\ AnswerUnknown(k)
  BY DEF WorkInv, CommandUnknown
<1>2. DraftsInv' /\ VaultStep /\ SameServed /\ Quiet
  BY <1>1, AnswerUnknownStep, QuietAnswers
<1> QED BY <1>1, <1>2, SameContext DEF contextVars, WorkInv, WorkTypes, CommandsOK, Quiet, Carried

\* The membership is looked up of the Bar shown.
LEMMA CommandRefusedWork ==
    ASSUME WorkInv, NEW k \in Keys, NEW status, CommandRefused(k, status)
    PROVE  WorkStep
<1>1. DraftsInv /\ AnswerRefused(k, status)
  BY DEF WorkInv, CommandRefused
<1>2. DraftsInv' /\ VaultStep /\ SameServed /\ Quiet
  BY <1>1, AnswerRefusedStep, QuietAnswers
<1>3. UNCHANGED <<auth, ctx, chosen, sent, access, asked>>
  BY DEF CommandRefused
<1>4. \/ lookups' = lookups
      \/ InBar /\ lookups' = lookups \cup {[why |-> "recheck", place |-> ctx.place, fresh |-> TRUE]}
  BY DEF CommandRefused
<1>5. lookups' \subseteq Lookups
  BY <1>4, LookupFacts DEF InBar, WorkInv, WorkTypes
<1>6. \A l \in lookups' \ lookups : /\ ctx # None /\ ctx.place \in Bars
                                    /\ l.why \in {"verify", "recheck"} /\ l.place = ctx.place /\ l.fresh
  BY <1>4 DEF InBar
<1> QED BY <1>2, <1>3, <1>5, <1>6, SameContext DEF WorkInv, WorkTypes, CommandsOK, Quiet, Carried

LEMMA VerifyWork ==
    ASSUME WorkInv, Verify
    PROVE  WorkStep
<1>1. DraftsInv' /\ VaultStep /\ SameServed /\ Quiet
  BY DraftsStay DEF WorkInv, Verify
<1>2. lookups' \subseteq Lookups
  BY LookupFacts DEF Verify, WorkInv, WorkTypes
<1>3. \A l \in lookups' \ lookups : /\ ctx # None /\ ctx.place \in Bars
                                    /\ l.why \in {"verify", "recheck"} /\ l.place = ctx.place /\ l.fresh
  BY DEF Verify
<1> QED BY <1>1, <1>2, <1>3, SameContext DEF Verify, WorkInv, WorkTypes, CommandsOK, Quiet, Carried

----------------------------------------------------------------------------
(* The actions of the session, of the switcher and of their lookups.       *)

LEMMA WithdrawnWork ==
    ASSUME WorkInv, Withdrawn, auth' \in {auth, NoUser}, chosen' = chosen, access' = access, asked' \in {asked, None}
    PROVE  WorkStep
<1>1. DraftsInv' /\ VaultStep /\ Quiet /\ ~store'.active
  BY DriveStep DEF WorkInv, Withdrawn
<1>2. ctx' = None /\ NewEpoch({}) /\ auth' \in Users \cup {NoUser}
  BY DEF Withdrawn, WorkInv, WorkTypes
<1> QED BY <1>1, <1>2, CloseStep

LEMMA SessionSuspendedWork ==
    ASSUME WorkInv, SessionSuspended
    PROVE  WorkStep
BY WithdrawnWork DEF SessionSuspended

LEMMA SessionEndedWork ==
    ASSUME WorkInv, SessionEnded
    PROVE  WorkStep
<1>1. DraftsInv' /\ VaultStep /\ Quiet /\ ~store'.active
  BY DriveStep DEF WorkInv, SessionEnded
<1> QED BY <1>1, CloseStep DEF SessionEnded

\* The notebook is confirmed again, or the Bar remembered is looked up.
LEMMA SessionConfirmedWork ==
    ASSUME WorkInv, NEW u \in Users, SessionConfirmed(u)
    PROVE  WorkStep
<1>1. /\ auth' = u /\ access' = access
      /\ auth = u \/ (ctx = None /\ ~store.active)
  BY DEF SessionConfirmed
<1>2. /\ DraftsInv /\ access \in [Bars -> 0..MaxAccess] /\ MaxAccess \in Nat
      /\ chosen \in [user : Users, place : Bars] \cup {None}
  BY DraftsAssumption DEF WorkInv, WorkTypes
<1>3. PICK p : /\ p = IF chosen # None /\ chosen.user = u THEN chosen.place ELSE Home[u]
               /\ asked' = At(u, p)
               /\ IF p = Home[u]
                  THEN Install(u, p, 0, store) /\ NewEpoch({})
                  ELSE /\ ctx' = None
                       /\ NewEpoch({[why |-> "confirm", place |-> p, fresh |-> TRUE]})
                       /\ UNCHANGED <<draftVars, last, chosen>>
  BY DEF SessionConfirmed
<1>4. p \in Bars \cup {Home[u]} /\ asked' \in Owners \cup {None}
  BY <1>2, <1>3, PlacesFacts
<1>5. CASE p = Home[u]
  <2>1. Install(u, p, 0, store) /\ NewEpoch({}) /\ Source(store) /\ 0 \in 0..MaxAccess /\ p \notin Bars
    BY <1>2, <1>3, <1>5, SourceFacts, PlacesFacts
  <2>2. /\ DraftsInv' /\ VaultStep /\ Quiet
        /\ store'.active /\ store'.owner = At(u, p)
        /\ ctx' \in Contexts /\ ctx'.place = p /\ chosen' = None
    BY <1>4, <2>1, InstallStep
  <2>3. ShownOK' /\ ServedOK'
    BY <1>1, <1>5, <2>1, <2>2, PlacesFacts DEF ShownOK, ServedOK
  <2>4. OpensRight
    BY <1>1, <1>3, <2>2 DEF OpensRight
  <2>5. ASSUME NEW k \in Carried, Waiting(k), sent[k] = "kept"
        PROVE  ctx # None /\ ctx.place = ctx'.place /\ ctx.place \notin Bars
    <3>1. ctx # None
      BY <2>5 DEF WorkInv, CommandsOK
    <3>2. /\ auth = u /\ ctx.place \in Bars \cup {Home[u]}
          /\ chosen = IF ctx.place \in Bars THEN At(u, ctx.place) ELSE None
      BY <1>1, <3>1 DEF WorkInv, ShownOK
    <3>3. ctx.place \notin Bars
      BY <1>3, <1>5, <2>1, <3>2, PlacesFacts
    <3> QED BY <1>5, <2>2, <3>1, <3>2, <3>3
  <2> QED BY <1>1, <1>2, <1>4, <2>1, <2>2, <2>3, <2>4, <2>5, EpochStep
<1>6. CASE p # Home[u]
  <2>1. PICK c : c = [why |-> "confirm", place |-> p, fresh |-> TRUE]
    OBVIOUS
  <2>2. ctx' = None /\ NewEpoch({c}) /\ UNCHANGED draftVars /\ chosen' = chosen /\ p \in Bars
    BY <1>3, <1>4, <1>6, <2>1
  <2>3. chosen = At(u, p)
    BY <1>2, <1>3, <1>6 DEF At
  <2>4. DraftsInv' /\ VaultStep /\ SameServed /\ Quiet
    BY <1>2, <2>2, DraftsStay
  <2>5. ShownOK' /\ ServedOK' /\ OpensRight
    BY <1>1, <2>2, <2>4 DEF ShownOK, ServedOK, OpensRight, Opens, SameServed, WorkInv
  <2>6. {c} \in SUBSET Lookups
    BY <2>1, <2>2, LookupFacts
  <2>7. LookupOK(c)' /\ c.why \notin {"select", "navigate"}
    BY <1>1, <2>1, <2>2, <2>3 DEF LookupOK
  <2> QED BY <1>1, <1>2, <1>4, <2>2, <2>4, <2>5, <2>6, <2>7, EpochStep
<1> QED BY <1>5, <1>6

\* A lookup ends, and nothing else is given up.
LEMMA EndedStep ==
    ASSUME WorkInv, DraftsInv', VaultStep, Quiet, UNCHANGED <<auth, sent, access, asked>>,
           lookups' \subseteq lookups, ctx' \in Contexts \cup {None}, ctx = None \/ ctx' # None,
           chosen' \in [user : Users, place : Bars] \cup {None},
           ShownOK', ServedOK', OpensRight, \A l \in lookups' : LookupOK(l)'
    PROVE  WorkStep
<1>1. WorkTypes'
  BY DEF WorkInv, WorkTypes
<1>2. CommandsOK'
  <2>1. Transitioning' => Transitioning
    BY DEF Transitioning
  <2>2. PendingCommands' => PendingCommands
    BY DEF PendingCommands, Quiet, Carried
  <2>3. \A k \in Carried : Waiting(k)' /\ sent'[k] = "kept" => ctx' # None
    BY DEF WorkInv, CommandsOK, Quiet, Carried
  <2> QED BY <2>1, <2>2, <2>3 DEF WorkInv, CommandsOK
<1>3. AnswersKept
  BY DEF AnswersKept
<1> QED BY <1>1, <1>2, <1>3 DEF WorkStep, WorkInv

\* Only one confirmation is awaited, and nothing is shown until its answer.
LEMMA ConfirmAnsweredWork ==
    ASSUME WorkInv, NEW l \in lookups, NEW reply, ConfirmAnswered(l, reply)
    PROVE  WorkStep
<1>1. /\ l \in Lookups /\ l.why = "confirm" /\ l.fresh /\ l.place \in Bars
      /\ ctx = None /\ auth \in Users /\ chosen = At(auth, l.place)
  BY DEF ConfirmAnswered, WorkInv, WorkTypes, LookupOK
<1>2. lookups' = lookups \ {l} /\ UNCHANGED <<auth, sent, access, asked>>
  BY DEF ConfirmAnswered, Ended
<1>3. ASSUME NEW m \in lookups' PROVE m.why \in {"select", "navigate"}
  <2>1. m \in lookups /\ m # l /\ m \in Lookups /\ LookupOK(m)
    BY <1>2, <1>3 DEF WorkInv, WorkTypes
  <2>2. m.why = "confirm" => m.place = l.place /\ m.fresh = l.fresh
    BY <1>1, <2>1, PlacesFacts DEF LookupOK, Lookups
  <2>3. m.why = "confirm" => m = l
    <3>1. m = [why |-> m.why, place |-> m.place, fresh |-> m.fresh]
      BY <2>1 DEF Lookups
    <3>2. l = [why |-> l.why, place |-> l.place, fresh |-> l.fresh]
      BY <1>1 DEF Lookups
    <3> QED BY <1>1, <2>2, <3>1, <3>2
  <2>4. m.why \in {"confirm", "select", "navigate", "verify", "recheck"}
    BY <2>1 DEF Lookups
  <2> QED BY <1>1, <2>1, <2>3, <2>4 DEF LookupOK
<1>4. \A m \in lookups' : LookupOK(m)'
  BY <1>2, <1>3 DEF WorkInv, LookupOK
<1>5. CASE reply = "bar"
  <2>1. Install(auth, l.place, access[l.place], store) /\ Source(store) /\ access[l.place] \in 0..MaxAccess
    BY <1>1, <1>5, SourceFacts DEF ConfirmAnswered, WorkInv, WorkTypes
  <2>2. /\ DraftsInv' /\ VaultStep /\ Quiet
        /\ store'.active /\ store'.owner = At(auth, l.place)
        /\ ctx' \in Contexts /\ ctx'.place = l.place /\ chosen' = At(auth, l.place)
        /\ chosen' \in [user : Users, place : Bars] \cup {None}
    BY <1>1, <2>1, InstallStep
  <2>3. ShownOK' /\ ServedOK' /\ OpensRight
    BY <1>1, <1>2, <2>2, PlacesFacts DEF ShownOK, ServedOK, OpensRight
  <2> QED BY <1>2, <1>4, <1>1, <2>2, <2>3, EndedStep
<1>6. CASE reply # "bar"
  <2>1. Drive(Suspend(store), TRUE) /\ UNCHANGED <<ctx, chosen>>
    BY <1>6 DEF ConfirmAnswered
  <2>2. DraftsInv' /\ VaultStep /\ Quiet /\ ~store'.active
    BY <2>1, DriveStep DEF WorkInv
  <2>3. ShownOK' /\ ServedOK' /\ OpensRight /\ chosen' \in [user : Users, place : Bars] \cup {None}
    BY <1>1, <2>1, <2>2 DEF ShownOK, ServedOK, OpensRight, Opens, WorkInv, WorkTypes
  <2> QED BY <1>1, <1>2, <1>4, <2>1, <2>2, <2>3, EndedStep
<1> QED BY <1>5, <1>6

LEMMA SelectWork ==
    ASSUME WorkInv, NEW p \in Places, Select(p)
    PROVE  WorkStep
<1>1. /\ auth \in Users /\ ~Transitioning /\ ~PendingCommands /\ p \in Bars \cup {Home[auth]}
      /\ asked' = At(auth, p) /\ UNCHANGED <<auth, access>>
  BY DEF Select, WorkInv, WorkTypes
<1>2. /\ access \in [Bars -> 0..MaxAccess] /\ MaxAccess \in Nat /\ asked' \in Owners \cup {None}
      /\ auth' \in Users \cup {NoUser}
  BY <1>1, PlacesFacts, DraftsAssumption DEF WorkInv, WorkTypes
<1>3. CASE p = Home[auth]
  <2>1. PICK c : c = [why |-> "navigate", place |-> p, fresh |-> TRUE]
    OBVIOUS
  <2>2. NewEpoch({c}) /\ \E s \in Purge(store) : Install(auth, p, 0, s)
    BY <1>3, <2>1 DEF Select
  <2>3. PICK s \in Purge(store) : Install(auth, p, 0, s)
    BY <2>2
  <2>4. Source(s) /\ 0 \in 0..MaxAccess /\ p \notin Bars
    BY <1>1, <1>2, <1>3, SourceFacts, PlacesFacts DEF WorkInv
  <2>5. /\ DraftsInv' /\ VaultStep /\ Quiet
        /\ store'.active /\ store'.owner = At(auth, p)
        /\ ctx' \in Contexts /\ ctx'.place = p /\ chosen' = None
    BY <1>1, <2>3, <2>4, InstallStep
  <2>6. ShownOK' /\ ServedOK' /\ OpensRight
    BY <1>1, <1>3, <2>4, <2>5, PlacesFacts DEF ShownOK, ServedOK, OpensRight
  <2>7. {c} \in SUBSET Lookups /\ LookupOK(c)'
    BY <2>1, LookupFacts DEF LookupOK
  <2>8. ~(\E k \in Carried : Waiting(k) /\ sent[k] = "kept")
    BY <1>1 DEF PendingCommands
  <2> QED BY <1>1, <1>2, <2>2, <2>5, <2>6, <2>7, <2>8, EpochStep
<1>4. CASE p # Home[auth]
  <2>1. PICK c : c = [why |-> "select", place |-> p, fresh |-> TRUE]
    OBVIOUS
  <2>2. /\ lookups' = lookups \cup {c} /\ UNCHANGED <<ctx, chosen, sent>> /\ UNCHANGED draftVars
        /\ p \in Bars
    BY <1>1, <1>4, <2>1 DEF Select
  <2>3. DraftsInv' /\ VaultStep /\ SameServed /\ Quiet
    BY <2>2, DraftsStay DEF WorkInv
  <2>4. WorkTypes'
    BY <1>1, <1>2, <2>1, <2>2, LookupFacts DEF WorkInv, WorkTypes
  <2>5. ShownOK' /\ ServedOK'
    BY <1>1, <2>2, <2>3 DEF WorkInv, ShownOK, ServedOK, SameServed
  <2>6. ASSUME NEW l \in lookups' PROVE LookupOK(l)'
    <3>1. CASE l = c
      BY <1>1, <2>1, <2>2, <3>1 DEF LookupOK
    <3>2. CASE l # c
      BY <1>1, <2>2, <2>6, <3>2 DEF WorkInv, LookupOK, Transitioning
    <3> QED BY <3>1, <3>2
  <2>7. CommandsOK'
    BY <1>1, <2>2, <2>3 DEF WorkInv, CommandsOK, PendingCommands, Quiet, Carried
  <2>8. OpensRight /\ AnswersKept
    BY <1>1, <2>2 DEF OpensRight, Opens, AnswersKept
  <2> QED BY <2>3, <2>4, <2>5, <2>6, <2>7, <2>8 DEF WorkStep, WorkInv
<1> QED BY <1>3, <1>4

\* A lookup ends and changes nothing.
LEMMA EndedWork ==
    ASSUME WorkInv, NEW l, Ended(l), UNCHANGED <<draftVars, auth, ctx, chosen, sent, access, asked>>
    PROVE  WorkStep
<1>1. DraftsInv' /\ VaultStep /\ SameServed /\ Quiet
  BY DraftsStay DEF WorkInv
<1>2. lookups' \subseteq lookups
  BY DEF Ended
<1> QED BY <1>1, <1>2, SameContext DEF WorkInv, WorkTypes, CommandsOK, Quiet, Carried

\* Whoever is signed in when the answer comes asked for it, and for no other
\* workspace since.
LEMMA SelectAnsweredWork ==
    ASSUME WorkInv, NEW l \in lookups, NEW reply, SelectAnswered(l, reply)
    PROVE  WorkStep
<1>1. CASE reply = "bar" /\ l.fresh
  <2>1. /\ l.place \in Bars /\ auth \in Users /\ asked = At(auth, l.place) /\ ~PendingCommands
        /\ UNCHANGED <<auth, access, asked>>
    BY <1>1 DEF SelectAnswered, WorkInv, LookupOK, CommandsOK, Transitioning
  <2>2. PICK s \in Purge(store) : Install(auth, l.place, access[l.place], s)
    BY <1>1 DEF SelectAnswered
  <2>3. Source(s) /\ access[l.place] \in 0..MaxAccess
    BY <2>1, SourceFacts DEF WorkInv, WorkTypes
  <2>4. /\ DraftsInv' /\ VaultStep /\ Quiet
        /\ store'.active /\ store'.owner = At(auth, l.place)
        /\ ctx' \in Contexts /\ ctx'.place = l.place /\ chosen' = At(auth, l.place)
        /\ chosen' \in [user : Users, place : Bars] \cup {None}
    BY <2>1, <2>2, <2>3, InstallStep
  <2>5. ShownOK' /\ ServedOK' /\ OpensRight
    BY <2>1, <2>4, PlacesFacts DEF ShownOK, ServedOK, OpensRight
  <2>6. /\ sent' = [k \in Keys |-> IF k \in Carried /\ Waiting(k) THEN "stale" ELSE sent[k]]
        /\ lookups' = {[why |-> "navigate", place |-> l.place, fresh |-> TRUE]}
    BY <1>1 DEF SelectAnswered
  <2>7. sent' = sent /\ sent \in [Keys -> {"kept", "stale", "local"}]
    BY <2>1, <2>6 DEF PendingCommands, WorkInv, WorkTypes
  <2>8. AnswersKept
    BY <2>7 DEF AnswersKept
  <2>9. \A m \in lookups' : m \in Lookups /\ m.why = "navigate" /\ m.fresh
    BY <2>1, <2>6, LookupFacts, PlacesFacts
  <2>10. ~PendingCommands'
    BY <2>1, <2>4 DEF PendingCommands, Quiet, Carried
  <2>11. ctx' # None
    BY <2>4, PlacesFacts
  <2>12. auth' \in Users \cup {NoUser} /\ access' \in [Bars -> 0..MaxAccess] /\ asked' \in Owners \cup {None}
    BY <2>1 DEF WorkInv, WorkTypes
  <2> QED BY <2>4, <2>5, <2>7, <2>8, <2>9, <2>10, <2>11, <2>12, FreshStep
<1>2. CASE ~(reply = "bar" /\ l.fresh)
  BY <1>2, EndedWork DEF SelectAnswered
<1> QED BY <1>1, <1>2

LEMMA NavigatedWork ==
    ASSUME WorkInv, NEW l \in lookups, NEW reply, Navigated(l, reply)
    PROVE  WorkStep
<1>1. CASE reply = "bar"
  BY <1>1, EndedWork DEF Navigated
<1>2. CASE reply # "bar"
  <2>1. /\ auth' = NoUser /\ ctx' = None /\ asked' = None /\ lookups' = {} /\ UNCHANGED <<chosen, access>>
        /\ sent' = [k \in Keys |-> IF k \in Carried /\ Waiting(k) THEN "stale" ELSE sent[k]]
        /\ Drive(Suspend(store), TRUE)
    BY <1>2 DEF Navigated
  <2>2. DraftsInv' /\ VaultStep /\ Quiet /\ ~store'.active
    BY <2>1, DriveStep DEF WorkInv
  <2>3. ShownOK' /\ ServedOK' /\ OpensRight /\ AnswersKept
    BY <2>1, <2>2 DEF ShownOK, ServedOK, OpensRight, Opens, AnswersKept
  <2>4. /\ sent' \in [Keys -> {"kept", "stale", "local"}]
        /\ \A k \in Carried : Waiting(k) => sent'[k] = "stale"
    BY <2>1 DEF WorkInv, WorkTypes, Carried
  <2>5. \A k \in Carried : Waiting(k)' => sent'[k] # "kept"
    BY <2>2, <2>4 DEF Quiet, Carried
  <2>6. /\ chosen' \in [user : Users, place : Bars] \cup {None} /\ access' \in [Bars -> 0..MaxAccess]
        /\ asked' \in Owners \cup {None} /\ ctx' \in Contexts \cup {None} /\ auth' \in Users \cup {NoUser}
    BY <2>1 DEF WorkInv, WorkTypes
  <2> QED BY <2>1, <2>2, <2>3, <2>4, <2>5, <2>6, FreshStep
<1> QED BY <1>1, <1>2

\* A verification is adopted only while no command is under way.
LEMMA VerifyAnsweredWork ==
    ASSUME WorkInv, NEW l \in lookups, NEW reply, VerifyAnswered(l, reply)
    PROVE  WorkStep
<1>1. /\ l.place \in Bars /\ ctx # None /\ ctx.place = l.place /\ auth \in Users
      /\ UNCHANGED <<auth, access, asked>>
  BY DEF VerifyAnswered, WorkInv, LookupOK, ShownOK
<1>2. CASE reply = "bar" /\ ~PendingCommands /\ store.pending = {}
  <2>1. Install(auth, l.place, access[l.place], store) /\ NewEpoch({})
    BY <1>2 DEF VerifyAnswered
  <2>2. Source(store) /\ access[l.place] \in 0..MaxAccess
    BY <1>1, SourceFacts DEF WorkInv, WorkTypes
  <2>3. /\ DraftsInv' /\ VaultStep /\ Quiet
        /\ store'.active /\ store'.owner = At(auth, l.place)
        /\ ctx' \in Contexts /\ ctx'.place = l.place /\ chosen' = At(auth, l.place)
        /\ chosen' \in [user : Users, place : Bars] \cup {None}
    BY <1>1, <2>1, <2>2, InstallStep
  <2>4. ShownOK' /\ ServedOK' /\ OpensRight
    BY <1>1, <2>3, PlacesFacts DEF ShownOK, ServedOK, OpensRight, Opens
  <2>5. ~(\E k \in Carried : Waiting(k) /\ sent[k] = "kept")
    BY <1>2 DEF PendingCommands
  <2>6. auth' \in Users \cup {NoUser} /\ access' \in [Bars -> 0..MaxAccess] /\ asked' \in Owners \cup {None}
    BY <1>1 DEF WorkInv, WorkTypes
  <2>7. {} \in SUBSET Lookups
    OBVIOUS
  <2> QED BY <2>1, <2>3, <2>4, <2>5, <2>6, <2>7, EpochStep
<1>3. CASE reply = "gone"
  <2>1. Withdrawn /\ chosen' = chosen
    BY <1>3 DEF VerifyAnswered
  <2> QED BY <1>1, <2>1, WithdrawnWork
<1>4. CASE ~(reply = "bar" /\ ~PendingCommands /\ store.pending = {}) /\ reply # "gone"
  <2>1. Ended(l) /\ UNCHANGED <<draftVars, ctx, last, chosen, sent>>
    BY <1>4 DEF VerifyAnswered
  <2> QED BY <1>1, <2>1, EndedWork
<1> QED BY <1>2, <1>3, <1>4

LEMMA RecheckAnsweredWork ==
    ASSUME WorkInv, NEW l \in lookups, NEW reply, RecheckAnswered(l, reply)
    PROVE  WorkStep
<1>1. CASE reply = "bar"
  BY <1>1, EndedWork DEF RecheckAnswered
<1>2. CASE reply # "bar"
  BY <1>2, WithdrawnWork DEF RecheckAnswered
<1> QED BY <1>1, <1>2

LEMMA TabReloadedWork ==
    ASSUME WorkInv, TabReloaded
    PROVE  WorkStep
<1>1. /\ Reload /\ auth' = NoUser /\ ctx' = None /\ asked' = None /\ lookups' = {}
      /\ sent' = [k \in Keys |-> "kept"] /\ UNCHANGED <<chosen, access>>
  BY DEF TabReloaded
<1>2. DraftsInv' /\ VaultStep
  BY <1>1, ReloadStep DEF WorkInv
<1>3. ~store'.active /\ \A k \in Keys : forms'[k] = None
  BY <1>1 DEF Reload, SetStore, Empty
<1>4. ShownOK' /\ ServedOK' /\ OpensRight /\ AnswersKept
  BY <1>1, <1>3 DEF ShownOK, ServedOK, OpensRight, Opens, AnswersKept
<1>5. \A k \in Carried : ~Waiting(k)'
  BY <1>3 DEF Waiting, Carried
<1>6. /\ chosen' \in [user : Users, place : Bars] \cup {None} /\ access' \in [Bars -> 0..MaxAccess]
      /\ asked' \in Owners \cup {None} /\ ctx' \in Contexts \cup {None} /\ auth' \in Users \cup {NoUser}
      /\ sent' \in [Keys -> {"kept", "stale", "local"}]
  BY <1>1 DEF WorkInv, WorkTypes
<1> QED BY <1>1, <1>2, <1>4, <1>5, <1>6, FreshStep

----------------------------------------------------------------------------
(* The invariant of the workspace and what follows from it.                *)

LEMMA WorkStarts == WorkspaceInit => WorkInv /\ Vault!VaultInit
<1> SUFFICES ASSUME WorkspaceInit PROVE WorkInv /\ Vault!VaultInit
  OBVIOUS
<1>1. DraftsInv /\ Vault!VaultInit
  BY DraftsStarts DEF WorkspaceInit
<1>2. ~store.active /\ \A k \in Keys : forms[k] = None
  BY DEF WorkspaceInit, Init, Empty
<1>3. WorkTypes
  BY DraftsAssumption DEF WorkspaceInit, WorkTypes
<1>4. ShownOK /\ ServedOK /\ CommandsOK /\ lookups = {}
  BY <1>2 DEF WorkspaceInit, ShownOK, ServedOK, CommandsOK, Transitioning, Waiting, Carried
<1> QED BY <1>1, <1>3, <1>4 DEF WorkInv

LEMMA WorkSteps == WorkInv /\ [WorkspaceNext]_vars => WorkStep
<1> SUFFICES ASSUME WorkInv, [WorkspaceNext]_vars PROVE WorkStep
  OBVIOUS
<1>1. ASSUME NEW l \in lookups, Answered(l) PROVE WorkStep
  BY <1>1, ConfirmAnsweredWork, SelectAnsweredWork, NavigatedWork, VerifyAnsweredWork, RecheckAnsweredWork
  DEF Answered
<1>2. ASSUME NEW k \in Keys, FormUsed(k) \/ FormLeft(k) \/ CommandDone(k) \/ CommandUnknown(k) PROVE WorkStep
  BY <1>2, FormUsedWork, FormLeftWork, CommandDoneWork, CommandUnknownWork
<1>3. ASSUME NEW k \in Keys, NEW what \in {"save", "folder"}, Command(k, what) PROVE WorkStep
  BY <1>3, CommandWork
<1>4. ASSUME NEW k \in Keys, NEW status \in {"refused", "conflict"}, CommandRefused(k, status) PROVE WorkStep
  BY <1>4, CommandRefusedWork
<1>5. ASSUME NEW b \in Bars, NEW u \in Users, AccessMoves(b, u) PROVE WorkStep
  BY <1>5, AccessWork
<1>6. ASSUME NEW p \in Places, NEW k \in Keys, ElsewhereEdited(p, k) PROVE WorkStep
  BY <1>6, ElsewhereWork
<1>7. CASE UNCHANGED vars
  <2>1. UNCHANGED draftVars /\ UNCHANGED contextVars
    BY <1>7 DEF vars
  <2>2. DraftsInv' /\ VaultStep /\ SameServed /\ Quiet
    BY <2>1, DraftsStay DEF WorkInv
  <2> QED BY <2>1, <2>2, SameContext DEF contextVars, WorkInv, WorkTypes, CommandsOK, Quiet, Carried
<1> QED BY <1>1, <1>2, <1>3, <1>4, <1>5, <1>6, <1>7, SessionSuspendedWork, SessionEndedWork,
           SessionConfirmedWork, SelectWork, VerifyWork, TabReloadedWork DEF WorkspaceNext

(* What a tab shows is served and remembered, every lookup of              *)
(* WorkspaceContext still says for whom it was made, and no command whose  *)
(* answer will be adopted is under way while another workspace is entered. *)
THEOREM WorkspaceInvariant == WorkspaceSpec => []WorkInv
<1>1. WorkspaceInit => WorkInv
  BY WorkStarts
<1>2. WorkInv /\ [WorkspaceNext]_vars => WorkInv'
  BY WorkSteps DEF WorkStep
<1> QED BY <1>1, <1>2, PTL DEF WorkspaceSpec

(* The context, its lookups and its commands have the types the modules of *)
(* the page declare for them, with those of the drafts they drive.         *)
THEOREM WorkspaceTypes == WorkspaceSpec => []WorkspaceTypeOK
<1>1. WorkInv => WorkspaceTypeOK
  BY DraftsTyped DEF WorkInv, WorkTypes, WorkspaceTypeOK, Contexts
<1> QED BY <1>1, WorkspaceInvariant, PTL

(* The drafts a page can read are those of the account and of the workspace*)
(* the tab shows, and no account's once the session is gone, for any       *)
(* answers late or lost.                                                   *)
THEOREM WorkspaceServesItsOwn == WorkspaceSpec => []ShownIsServed
<1>1. WorkInv => ShownIsServed
  BY PlacesFacts DEF WorkInv, ShownOK, ServedOK, ShownIsServed
<1> QED BY <1>1, WorkspaceInvariant, PTL

(* A workspace opens only if it was the last asked for, or the Bar         *)
(* remembered whose confirmation a selection did not cancel: generation++  *)
(* disarms the answers of every other lookup.                              *)
THEOREM LateLookupsOpenNothing == WorkspaceSpec => OnlyTheLastChoiceOpens
<1>1. WorkInv /\ [WorkspaceNext]_vars =>
        [Opens => \/ asked' = At(auth', ctx'.place)
                  \/ ctx = None /\ auth = auth' /\ chosen = At(auth, ctx'.place)]_vars
  BY WorkSteps DEF WorkStep, OpensRight
<1> QED BY <1>1, WorkspaceInvariant, PTL DEF WorkspaceSpec, OnlyTheLastChoiceOpens

(* The answer of a command under way is given up only where its workspace  *)
(* is withdrawn, or the session confirms the notebook again: neither a     *)
(* verification nor a change of workspace makes the tab discard it.        *)
THEOREM AnswersAreAwaited == WorkspaceSpec => AwaitedAnswersKeepTheirContext
<1>1. WorkInv /\ [WorkspaceNext]_vars =>
        [(\E k \in Carried : sent[k] = "kept" /\ sent'[k] = "stale")
          => ctx' = None \/ (ctx # None /\ ctx.place = ctx'.place /\ ctx.place \notin Bars)]_vars
  BY WorkSteps DEF WorkStep, AnswersKept
<1> QED BY <1>1, WorkspaceInvariant, PTL DEF WorkspaceSpec, AwaitedAnswersKeepTheirContext

(* Driven by the workspace, its installations and withdrawals in one step  *)
(* each, the forms, the store and the storage are still a vault.           *)
THEOREM WorkspaceKeepsTheVault == WorkspaceSpec => ImplementsVault
<1>1. WorkspaceInit => Vault!VaultInit
  BY WorkStarts
<1>2. WorkInv /\ [WorkspaceNext]_vars => VaultStep
  BY WorkSteps DEF WorkStep
<1> QED BY <1>1, <1>2, WorkspaceInvariant, PTL DEF WorkspaceSpec, ImplementsVault, Vault!VaultSpec, VaultStep

(* Nor does the workspace disturb what the drafts keep: whose they are,    *)
(* what a purge destroyed, and the version a save names.                   *)
THEOREM WorkspaceKeepsDrafts ==
    WorkspaceSpec => [](DraftsStayHome /\ PurgedNeverComesBack /\ SavesNameTheirBase)
<1>1. WorkInv => DraftsStayHome /\ PurgedNeverComesBack /\ SavesNameTheirBase
  BY DraftsKeep DEF WorkInv
<1> QED BY <1>1, WorkspaceInvariant, PTL
=============================================================================
