--------------------------- MODULE RecipesProofs ----------------------------
(***************************************************************************)
(* Proofs about Recipes, for every set of handlers, ingredients, names and *)
(* requests: statement by statement, interrupted and retried, the handlers *)
(* implement RecipeBook, where every command runs alone.  Then about       *)
(* BatchPlans: what its plans keep of the recipes they were made from.     *)
(* Last, about BatchCalculation: the quantities of a plan are exact, for   *)
(* every content and all parameters.                                       *)
(***************************************************************************)
EXTENDS BatchPlans, SequenceTheorems, WellFoundedInduction, TLAPS

Active == {"select", "insert", "main", "write", "commit"}

Mentioned(c) == {Mentions(c)[j] : j \in 1..Len(Mentions(c))}

\* What a transaction remembers of the catalogue is still true: a default it
\* read is committed for good, one it inserted is still its own to commit.
MapHolds(h) ==
    \A s \in Slugs :
        /\ tx[h].added[s] = Nothing => tx[h].cache[s] \in {Nothing, catalogue[s]}
        /\ tx[h].added[s] # Nothing => /\ catalogue[s] = Nothing
                                       /\ tx[h].added[s] = AskedDefault(Request(h), s)
                                       /\ tx[h].cache[s] = tx[h].added[s]
        /\ tx[h].cache[s] # Nothing => s \in Mentioned(Request(h))

\* How far a transaction has come in the list of its ingredients.
Progress(h) ==
    LET c == Request(h)
        all == Len(Mentions(c))
    IN /\ tx[h].i \in 1..(all + 1)
       /\ \A j \in 1..all : j < tx[h].i => tx[h].cache[Mentions(c)[j]] # Nothing
       /\ tx[h].at \in {"select", "insert"} => tx[h].i <= all
       /\ tx[h].at = "insert" => tx[h].cache[Mentions(c)[tx[h].i]] = Nothing
       /\ tx[h].at = "main" => tx[h].i = Len(c.lines) + 1
       /\ tx[h].at \in {"write", "commit"} => tx[h].i = all + 1
       /\ tx[h].i > Len(c.lines) /\ tx[h].at # "main" => MainIsAlcoholic(c, tx[h].cache)

\* The row a command is about, from the moment it was looked up.
RowHolds(h) ==
    LET c == Request(h)
    IN /\ ~Personal(h) => lock = h
       /\ c.kind = "replace" => recipe[c.name] # Nothing /\ recipe[c.name].version = c.version
       /\ kind = "SHARED" /\ c.kind = "create" => recipe[c.name] = Nothing
       /\ kind = "SHARED" /\ tx[h].at = "insert" => catalogue[Mentions(c)[tx[h].i]] = Nothing

\* What a transaction is about to commit.
WrittenHolds(h) ==
    LET c == Request(h)
        content == Content(c, tx[h].cache)
    IN tx[h].at = "commit" => tx[h].written \in Rows /\
         \/ /\ c.kind = "create" /\ recipe[c.name] = Nothing
            /\ tx[h].written = [version |-> 0, content |-> content]
         \/ /\ c.kind = "replace" /\ recipe[c.name].content = content
            /\ tx[h].written = recipe[c.name]
         \/ /\ c.kind = "replace" /\ c.version < MaxVersion
            /\ tx[h].written = [version |-> c.version + 1, content |-> content]

Working(h) == Valid(Request(h)) /\ MapHolds(h) /\ Progress(h) /\ RowHolds(h) /\ WrittenHolds(h)

Resting(h) ==
    /\ tx[h].added = Fresh /\ tx[h].cache = Fresh /\ tx[h].i = 1
    /\ tx[h].at = "check" => lock = h

Answered(h) ==
    tx[h].at = "done" /\ Request(h).kind = "create" =>
        /\ tx[h].status = "name taken" => recipe[Request(h).name] # Nothing
        /\ kind = "SHARED" => tx[h].status # "raced"

Handler(h) ==
    tx[h] # Nothing =>
        /\ Request(h) \in Commands
        /\ Personal(h) => tx[h].at \notin {"lock", "check"}
        /\ ~Personal(h) => tx[h].at # "precheck"
        /\ tx[h].at \in Active => Working(h)
        /\ tx[h].at \notin Active => Resting(h)
        /\ Answered(h)

\* No two open transactions have inserted one entry or one recipe.
Apart(g, h) ==
    tx[g] # Nothing /\ tx[h] # Nothing =>
        /\ \A s \in Slugs : tx[g].added[s] = Nothing \/ tx[h].added[s] = Nothing
        /\ tx[g].at = "commit" /\ tx[h].at = "commit"
              /\ Request(g).kind = "create" /\ Request(h).kind = "create" =>
           Request(g).name # Request(h).name

\* The ingredients of a stored recipe are in the catalogue.
Catalogued(content) ==
    /\ \A j \in 1..Len(content.lines) : catalogue[content.lines[j].slug] # Nothing
    /\ \A j \in 1..Len(content.garnishes) : catalogue[content.garnishes[j].slug] # Nothing

IInv ==
    /\ TypeOK
    /\ \A h \in Handlers : Handler(h)
    /\ \A g, h \in Handlers : g # h => Apart(g, h)
    /\ \A n \in Names : recipe[n] # Nothing => Catalogued(recipe[n].content)

----------------------------------------------------------------------------
\* Positions in the concatenation of p and q elements.
LEMMA Positions ==
    ASSUME NEW p \in Nat, NEW q \in Nat
    PROVE  /\ \A j \in 1..p : j \in 1..(p + q) /\ j <= p
           /\ \A j \in 1..q : p + j \in 1..(p + q) /\ ~(p + j <= p) /\ (p + j) - p = j
OBVIOUS

\* A command mentions its lines, then its garnishes.
LEMMA MentionsFacts ==
    ASSUME NEW c \in CommandType
    PROVE  /\ Mentions(c) \in Seq(Slugs)
           /\ Len(Mentions(c)) = Len(c.lines) + Len(c.garnishes)
           /\ Len(c.lines) \in Nat \ {0} /\ Len(c.garnishes) \in Nat
           /\ \A j \in 1..Len(c.lines) : Mentions(c)[j] = c.lines[j].slug
           /\ \A j \in 1..Len(c.garnishes) : Mentions(c)[Len(c.lines) + j] = c.garnishes[j].slug
           /\ c.garnishes = <<>> <=> Len(c.garnishes) = 0
<1> DEFINE lines == [j \in DOMAIN c.lines |-> c.lines[j].slug]
           garnishes == [j \in DOMAIN c.garnishes |-> c.garnishes[j].slug]
<1>1. c.lines \in Seq(LineType) /\ c.lines # <<>> /\ c.garnishes \in Seq(GarnishType)
  BY DEF CommandType
<1>2. /\ Len(c.lines) \in Nat /\ DOMAIN c.lines = 1..Len(c.lines)
      /\ Len(c.garnishes) \in Nat /\ DOMAIN c.garnishes = 1..Len(c.garnishes)
      /\ \A j \in 1..Len(c.lines) : c.lines[j] \in LineType
      /\ \A j \in 1..Len(c.garnishes) : c.garnishes[j] \in GarnishType
  BY <1>1, ElementOfSeq, LenProperties
<1>3. lines \in Seq(Slugs) /\ Len(lines) = Len(c.lines)
  <2>1. lines \in [1..Len(c.lines) -> Slugs]
    BY <1>2 DEF LineType
  <2> QED BY <1>2, <2>1, IsASeq, LenProperties
<1>4. garnishes \in Seq(Slugs) /\ Len(garnishes) = Len(c.garnishes)
  <2>1. garnishes \in [1..Len(c.garnishes) -> Slugs]
    BY <1>2 DEF GarnishType
  <2> QED BY <1>2, <2>1, IsASeq, LenProperties
<1>5. Mentions(c) = lines \o garnishes
  BY DEF Mentions
<1> HIDE DEF lines, garnishes
<1>6. /\ lines \o garnishes \in Seq(Slugs) /\ Len(lines \o garnishes) = Len(lines) + Len(garnishes)
      /\ \A j \in 1..(Len(lines) + Len(garnishes)) :
            (lines \o garnishes)[j] = IF j <= Len(lines) THEN lines[j] ELSE garnishes[j - Len(lines)]
  BY <1>3, <1>4, ConcatProperties
<1>n. Len(c.lines) \in Nat /\ Len(c.garnishes) \in Nat
  BY <1>2
<1>7. ASSUME NEW j \in 1..Len(c.lines)
      PROVE  Mentions(c)[j] = c.lines[j].slug
  <2>1. j \in 1..(Len(lines) + Len(garnishes)) /\ j <= Len(lines)
    BY <1>3, <1>4, <1>n, Positions, Zenon
  <2>2. Mentions(c)[j] = lines[j]
    BY <1>5, <1>6, <2>1
  <2> QED BY <1>2, <2>2 DEF lines
<1>8. ASSUME NEW j \in 1..Len(c.garnishes)
      PROVE  Mentions(c)[Len(c.lines) + j] = c.garnishes[j].slug
  <2> DEFINE k == Len(c.lines) + j
  <2>1. k \in 1..(Len(lines) + Len(garnishes)) /\ ~(k <= Len(lines)) /\ k - Len(lines) = j
    BY <1>3, <1>4, <1>n, Positions, Zenon
  <2> HIDE DEF k
  <2>2. Mentions(c)[k] = garnishes[j]
    BY <1>5, <1>6, <2>1
  <2> QED BY <1>2, <2>2 DEF garnishes, k
<1>9. Len(c.lines) # 0 /\ (c.garnishes = <<>> <=> Len(c.garnishes) = 0)
  BY <1>1, EmptySeq
<1> QED BY <1>3, <1>4, <1>5, <1>6, <1>n, <1>7, <1>8, <1>9

LEMMA MentionedFacts ==
    ASSUME NEW c \in CommandType
    PROVE  /\ Mentioned(c) \subseteq Slugs
           /\ \A j \in 1..Len(Mentions(c)) : Mentions(c)[j] \in Mentioned(c) /\ Mentions(c)[j] \in Slugs
           /\ \A j \in 1..Len(c.lines) : c.lines[j].slug \in Mentioned(c)
           /\ \A j \in 1..Len(c.garnishes) : c.garnishes[j].slug \in Mentioned(c)
           /\ DOMAIN c.lines = 1..Len(c.lines) /\ DOMAIN Mentions(c) = 1..Len(Mentions(c))
<1>1. \A j \in 1..Len(Mentions(c)) : Mentions(c)[j] \in Mentioned(c) /\ Mentions(c)[j] \in Slugs
  BY MentionsFacts, ElementOfSeq DEF Mentioned
<1>2. Mentioned(c) \subseteq Slugs
  BY <1>1 DEF Mentioned
<1>n. /\ Len(Mentions(c)) = Len(c.lines) + Len(c.garnishes)
      /\ Len(c.lines) \in Nat /\ Len(c.garnishes) \in Nat
  BY MentionsFacts
<1>3. ASSUME NEW j \in 1..Len(c.lines)
      PROVE  c.lines[j].slug \in Mentioned(c)
  <2>1. Mentions(c)[j] = c.lines[j].slug
    BY MentionsFacts
  <2>2. j \in 1..Len(Mentions(c))
    BY <1>n, Positions, Zenon
  <2> QED BY <1>1, <2>1, <2>2
<1>4. ASSUME NEW j \in 1..Len(c.garnishes)
      PROVE  c.garnishes[j].slug \in Mentioned(c)
  <2>1. Mentions(c)[Len(c.lines) + j] = c.garnishes[j].slug
    BY MentionsFacts
  <2>2. Len(c.lines) + j \in 1..Len(Mentions(c))
    BY <1>n, Positions, Zenon
  <2> QED BY <1>1, <2>1, <2>2
<1>5. c.lines \in Seq(LineType) /\ Mentions(c) \in Seq(Slugs)
  BY MentionsFacts DEF CommandType
<1> QED BY <1>1, <1>2, <1>3, <1>4, <1>5, LenProperties

\* A command mentions nothing but its lines and its garnishes.
LEMMA MentionedComesFrom ==
    ASSUME NEW c \in CommandType, NEW s \in Mentioned(c)
    PROVE  \/ \E j \in 1..Len(c.lines) : c.lines[j].slug = s
           \/ \E j \in 1..Len(c.garnishes) : c.garnishes[j].slug = s
<1> DEFINE p == Len(c.lines)
           q == Len(c.garnishes)
           all == Len(Mentions(c))
<1>1. p \in Nat /\ q \in Nat /\ all = p + q
  BY MentionsFacts
<1>2. PICK j \in 1..all : s = Mentions(c)[j]
  BY DEF Mentioned
<1> HIDE DEF p, q, all
<1>3. CASE j <= p
  <2>1. j \in 1..p
    BY <1>1, <1>3
  <2>2. Mentions(c)[j] = c.lines[j].slug
    BY <2>1, MentionsFacts DEF p
  <2> QED BY <1>2, <2>1, <2>2 DEF p
<1>4. CASE ~(j <= p)
  <2>1. PICK k \in 1..q : j = p + k
    <3>1. j - p \in 1..q /\ j = p + (j - p)
      BY <1>1, <1>4
    <3> QED BY <3>1
  <2>2. Mentions(c)[p + k] = c.garnishes[k].slug
    BY MentionsFacts DEF p, q
  <2> QED BY <1>2, <2>1, <2>2 DEF q
<1> QED BY <1>3, <1>4

\* The first mention that asks is one: the default asked for is a degree.
LEMMA AskedIsDegree ==
    ASSUME NEW c \in CommandType, NEW s \in Slugs
    PROVE  AskedDefault(c, s) \in Degrees /\ AskedDefault(c, s) # Nothing
<1> DEFINE asking == {j \in DOMAIN c.lines : c.lines[j].slug = s}
<1>1. CASE asking = {}
  BY <1>1, RulesAssumption DEF AskedDefault, Degrees, NoDegree
<1>2. CASE asking # {}
  <2>1. (CHOOSE j \in asking : TRUE) \in asking
    BY <1>2
  <2>2. \A j \in DOMAIN c.lines : c.lines[j] \in LineType
    BY ElementOfSeq, LenProperties DEF CommandType
  <2>3. c.lines[CHOOSE j \in asking : TRUE].asked \in Degrees
    BY <2>1, <2>2 DEF LineType
  <2> QED BY <1>2, <2>3, RulesAssumption DEF AskedDefault
<1> QED BY <1>1, <1>2

\* Two maps that agree on what a command mentions yield the same recipe.
LEMMA SameContent ==
    ASSUME NEW c \in CommandType, NEW d, NEW e, \A s \in Mentioned(c) : d[s] = e[s]
    PROVE  Content(c, d) = Content(c, e)
<1>1. \A j \in DOMAIN c.lines : d[c.lines[j].slug] = e[c.lines[j].slug]
  BY MentionedFacts
<1>2. StoredLines(c, d) = StoredLines(c, e)
  BY <1>1 DEF StoredLines
<1> QED BY <1>2 DEF Content

\* Two maps that agree on its lines agree on its main alcohol.
LEMMA SameMain ==
    ASSUME NEW c \in CommandType, NEW d, NEW e,
           \A j \in 1..Len(c.lines) : d[c.lines[j].slug] = e[c.lines[j].slug],
           MainIsAlcoholic(c, d)
    PROVE  MainIsAlcoholic(c, e)
<1>1. \A j \in DOMAIN c.lines : d[c.lines[j].slug] = e[c.lines[j].slug]
  BY MentionedFacts
<1>2. StoredLines(c, d) = StoredLines(c, e)
  BY <1>1 DEF StoredLines
<1> QED BY <1>1, <1>2 DEF MainIsAlcoholic

\* What a command yields is a recipe, of the ingredients it mentions.
LEMMA ContentFacts ==
    ASSUME NEW c \in CommandType, NEW d
    PROVE  /\ Content(c, d) \in ContentType
           /\ Content(c, d).garnishes = c.garnishes
           /\ Len(Content(c, d).lines) = Len(c.lines)
           /\ \A j \in 1..Len(c.lines) : Content(c, d).lines[j].slug = c.lines[j].slug
<1> DEFINE rows == StoredLines(c, d)
<1>1. /\ DOMAIN c.lines = 1..Len(c.lines) /\ Len(c.lines) \in Nat
      /\ \A j \in 1..Len(c.lines) : c.lines[j] \in LineType
  BY ElementOfSeq, LenProperties DEF CommandType
<1>2. ASSUME NEW j \in 1..Len(c.lines)
      PROVE  rows[j] \in StoredType /\ rows[j].slug = c.lines[j].slug
  <2> DEFINE line == c.lines[j]
  <2>1. rows[j] = StoredLine(c, line, d[line.slug]) /\ line \in LineType
    BY <1>1 DEF StoredLines
  <2> HIDE DEF line, rows
  <2>2. ResolveRecipeAbvOverride(line.asked, line.degree, d[line.slug]) \in Degrees
    BY <2>1 DEF ResolveRecipeAbvOverride, LineType, Degrees, NoDegree
  <2>3. rows[j].override \in Degrees
    BY <2>1, <2>2 DEF StoredLine, LineType, Degrees, NoDegree
  <2> QED BY <2>1, <2>3 DEF StoredLine, LineType, StoredType, line
<1>3. rows \in Seq(StoredType) /\ Len(rows) = Len(c.lines)
  <2>1. rows \in [1..Len(c.lines) -> StoredType]
    BY <1>1, <1>2 DEF StoredLines
  <2> QED BY <1>1, <2>1, IsASeq, LenProperties
<1> QED BY <1>2, <1>3 DEF Content, ContentType, CommandType

LEMMA CommandsAreTyped ==
    /\ Commands \subseteq CommandType
    /\ \A c \in Commands : c.version \in 0..MaxVersion
    /\ \A k \in Kinds : \A c \in Requests[k], v \in 0..MaxVersion :
          [c EXCEPT !.version = v] \in Commands /\ [c EXCEPT !.version = v].kind = c.kind
<1>1. ASSUME NEW k \in Kinds, NEW c \in Requests[k], NEW v \in 0..MaxVersion
      PROVE  /\ [c EXCEPT !.version = v] \in CommandType
             /\ [c EXCEPT !.version = v].version = v
             /\ [c EXCEPT !.version = v].kind = c.kind
  <2>1. c \in CommandType /\ v \in Nat
    BY RecipesAssumption
  <2> QED BY <2>1 DEF CommandType
<1>2. \A k \in Kinds : \A c \in Requests[k], v \in 0..MaxVersion : [c EXCEPT !.version = v] \in Commands
  BY DEF Commands
<1>3. \A c \in Commands : \E k \in Kinds : \E b \in Requests[k], v \in 0..MaxVersion :
          c = [b EXCEPT !.version = v]
  BY DEF Commands
<1>4. ASSUME NEW c \in Commands
      PROVE  c \in CommandType /\ c.version \in 0..MaxVersion
  <2>1. PICK k \in Kinds : \E b \in Requests[k], v \in 0..MaxVersion : c = [b EXCEPT !.version = v]
    BY <1>3
  <2>2. PICK b \in Requests[k], v \in 0..MaxVersion : c = [b EXCEPT !.version = v]
    BY <2>1
  <2> QED BY <1>1, <2>2
<1> QED BY <1>1, <1>2, <1>4, Zenon

----------------------------------------------------------------------------
\* What another handler relies on is left alone by a step that changes no
\* row and does not take the lock from it.
LEMMA OthersKeep ==
    ASSUME NEW g \in Handlers, Handler(g), tx'[g] = tx[g], UNCHANGED <<kind, catalogue, recipe>>,
           lock = g => lock' = g
    PROVE  Handler(g)'
<1>1. Request(g)' = Request(g) /\ Personal(g)' = Personal(g)
  BY DEF Request, Personal
<1>2. MapHolds(g) => MapHolds(g)'
  BY <1>1 DEF MapHolds
<1>3. Progress(g) => Progress(g)'
  BY <1>1 DEF Progress
<1>4. RowHolds(g) => RowHolds(g)'
  BY <1>1 DEF RowHolds
<1>5. WrittenHolds(g) => WrittenHolds(g)'
  BY <1>1 DEF WrittenHolds
<1>6. Working(g) => Working(g)'
  BY <1>1, <1>2, <1>3, <1>4, <1>5 DEF Working
<1>7. Resting(g) => Resting(g)'
  BY DEF Resting, Fresh
<1>8. Answered(g) => Answered(g)'
  BY <1>1 DEF Answered
<1> QED BY <1>1, <1>6, <1>7, <1>8 DEF Handler

\* A step of one handler that commits nothing.
LEMMA QuietStep ==
    ASSUME IInv, NEW h \in Handlers, NEW r \in Transactions \cup {Nothing}, Goes(h, r),
           UNCHANGED <<kind, access, catalogue, recipe>>,
           lock' \in Handlers \cup {Nothing}, \A g \in Handlers \ {h} : lock = g => lock' = g,
           Handler(h)', \A g \in Handlers \ {h} : Apart(g, h)' /\ Apart(h, g)'
    PROVE  IInv'
<1>1. /\ tx' \in [Handlers -> Transactions \cup {Nothing}] /\ tx'[h] = r
      /\ \A g \in Handlers \ {h} : tx'[g] = tx[g]
  BY DEF IInv, TypeOK, Goes
<1>2. TypeOK'
  BY <1>1 DEF IInv, TypeOK, Entries, Rows
<1>3. \A g \in Handlers : Handler(g)'
  <2>1. ASSUME NEW g \in Handlers \ {h} PROVE Handler(g)'
    BY <1>1, OthersKeep DEF IInv
  <2> QED BY <2>1
<1>4. ASSUME NEW f \in Handlers, NEW g \in Handlers, f # g PROVE Apart(f, g)'
  <2>1. CASE f # h /\ g # h
    BY <1>1, <1>4, <2>1 DEF IInv, Apart, Request
  <2> QED BY <1>4, <2>1
<1>5. \A n \in Names : recipe'[n] # Nothing => Catalogued(recipe[n].content)'
  BY DEF IInv, Catalogued
<1> QED BY <1>2, <1>3, <1>4, <1>5 DEF IInv

\* A refusal frees what the transaction holds.
LEMMA RefuseStep ==
    ASSUME IInv, NEW h \in Handlers, tx[h] # Nothing, NEW status \in Statuses, Refuse(h, status),
           Request(h).kind = "create" =>
               /\ status = "name taken" => recipe[Request(h).name] # Nothing
               /\ kind = "SHARED" => status # "raced"
    PROVE  IInv'
<1> DEFINE row == [Begun(Request(h), tx[h].access, "done", tx[h].retries) EXCEPT !.status = status]
<1>1. tx[h] \in Transactions /\ Handler(h)
  BY DEF IInv, TypeOK
<1>2. Fresh \in Entries
  BY DEF Fresh, Entries
<1>3. /\ row \in Transactions /\ row.request = tx[h].request /\ row.at = "done"
      /\ row.status = status /\ row.added = Fresh /\ row.cache = Fresh /\ row.i = 1
  BY <1>1, <1>2 DEF Begun, Transactions, Stages, Request
<1>4. Goes(h, row) /\ UNCHANGED <<kind, access, catalogue, recipe>>
      /\ lock' = IF lock = h THEN Nothing ELSE lock
  BY DEF Refuse, Ended, rowVars
<1> HIDE DEF row
<1>5. tx'[h] = row /\ \A g \in Handlers \ {h} : tx'[g] = tx[g]
  BY <1>3, <1>4 DEF IInv, TypeOK, Goes
<1>6. Request(h)' = Request(h) /\ Personal(h)' = Personal(h)
  BY <1>3, <1>4, <1>5 DEF Request, Personal
<1>7. Handler(h)'
  <2>1. Answered(h)'
    BY <1>3, <1>4, <1>5, <1>6 DEF Answered
  <2>2. Resting(h)'
    BY <1>3, <1>5 DEF Resting, Fresh
  <2>3. Request(h) \in Commands
    BY <1>1 DEF Handler
  <2> QED BY <1>3, <1>5, <1>6, <2>1, <2>2, <2>3 DEF Handler, Active
<1>8. \A g \in Handlers \ {h} : Apart(g, h)' /\ Apart(h, g)'
  BY <1>3, <1>5 DEF Apart, Fresh
<1>9. lock' \in Handlers \cup {Nothing} /\ \A g \in Handlers \ {h} : lock = g => lock' = g
  BY <1>4 DEF IInv, TypeOK
<1> QED BY <1>3, <1>4, <1>7, <1>8, <1>9, QuietStep

\* A statement after which the transaction goes on.
LEMMA GoesOn ==
    ASSUME IInv, NEW h \in Handlers, tx[h] # Nothing, NEW r \in Transactions, Goes(h, r),
           UNCHANGED <<kind, access, catalogue, recipe, lock>>, r.at # "commit",
           \A s \in Slugs : r.added[s] \in {Nothing, tx[h].added[s]}, Handler(h)'
    PROVE  IInv'
<1>1. tx'[h] = r /\ \A g \in Handlers \ {h} : tx'[g] = tx[g]
  BY DEF IInv, TypeOK, Goes
<1>2. \A g \in Handlers \ {h} : Apart(g, h) /\ Apart(h, g)
  BY DEF IInv
<1>3. \A g \in Handlers \ {h} : Apart(g, h)' /\ Apart(h, g)'
  BY <1>1, <1>2 DEF Apart
<1>4. lock' \in Handlers \cup {Nothing} /\ \A g \in Handlers \ {h} : lock = g => lock' = g
  BY DEF IInv, TypeOK
<1> QED BY <1>3, <1>4, QuietStep

\* The first statement of a transaction, or of a new attempt.
LEMMA StartStep ==
    ASSUME IInv, NEW h \in Handlers, tx[h] # Nothing, NEW r \in Transactions, Goes(h, r),
           UNCHANGED <<kind, access, catalogue, recipe, lock>>,
           r.request = tx[h].request, r.at = "select", r.i = 1, r.cache = Fresh, r.added = Fresh,
           Valid(Request(h)), ~Personal(h) => lock = h,
           Request(h).kind = "replace" => /\ recipe[Request(h).name] # Nothing
                                          /\ recipe[Request(h).name].version = Request(h).version,
           kind = "SHARED" /\ Request(h).kind = "create" => recipe[Request(h).name] = Nothing
    PROVE  IInv'
<1>1. tx'[h] = r
  BY DEF IInv, TypeOK, Goes
<1>2. Request(h)' = Request(h) /\ Personal(h)' = Personal(h)
  BY <1>1 DEF Request, Personal
<1>3. Request(h) \in CommandType /\ Request(h) \in Commands
  BY DEF IInv, TypeOK, Transactions, Handler, Request
<1>4. MapHolds(h)'
  BY <1>1 DEF MapHolds, Fresh
<1>5. Progress(h)'
  <2>1. /\ Len(Mentions(Request(h))) = Len(Request(h).lines) + Len(Request(h).garnishes)
        /\ Len(Request(h).lines) \in Nat \ {0} /\ Len(Request(h).garnishes) \in Nat
    BY <1>3, MentionsFacts
  <2>2. /\ 1 \in 1..(Len(Mentions(Request(h))) + 1) /\ 1 <= Len(Mentions(Request(h)))
        /\ ~(1 > Len(Request(h).lines)) /\ \A j \in 1..Len(Mentions(Request(h))) : ~(j < 1)
    <3> DEFINE p == Len(Request(h).lines)
               q == Len(Request(h).garnishes)
               all == Len(Mentions(Request(h)))
    <3>1. p \in Nat \ {0} /\ q \in Nat /\ all = p + q
      BY <2>1
    <3> HIDE DEF p, q, all
    <3>2. 1 \in 1..(all + 1) /\ 1 <= all /\ ~(1 > p) /\ \A j \in 1..all : ~(j < 1)
      BY <3>1
    <3> QED BY <3>2 DEF p, all
  <2> QED BY <1>1, <1>2, <2>2 DEF Progress
<1>6. RowHolds(h)' /\ WrittenHolds(h)'
  BY <1>1, <1>2 DEF RowHolds, WrittenHolds
<1>7. Working(h)'
  BY <1>2, <1>4, <1>5, <1>6 DEF Working
<1>8. Handler(h)'
  BY <1>1, <1>2, <1>3, <1>7 DEF Handler, Active, Answered
<1>9. \A s \in Slugs : r.added[s] \in {Nothing, tx[h].added[s]}
  BY DEF Fresh
<1> QED BY <1>8, <1>9, GoesOn

LEMMA SendStep ==
    ASSUME IInv, NEW h \in Handlers, Sends(h)
    PROVE  IInv'
<1>1. PICK b \in Requests[kind], version \in 0..MaxVersion, v \in 0..access :
          Send(h, [b EXCEPT !.version = version], v)
  BY DEF Sends
<1> DEFINE c == [b EXCEPT !.version = version]
           at == IF kind = "PERSONAL" /\ c.kind = "create" THEN "precheck" ELSE "lock"
           row == Begun(c, v, at, 0)
<1>2. c \in Commands /\ c \in CommandType
  BY <1>1, CommandsAreTyped DEF IInv, TypeOK
<1>3. Goes(h, row) /\ tx[h] = Nothing /\ UNCHANGED <<kind, access, catalogue, recipe, lock>>
  BY <1>1 DEF Send, rowVars
<1> HIDE DEF c
<1>4. v \in 0..MaxAccess /\ 0 \in 0..MaxCatalogRetries
  BY RecipesAssumption DEF IInv, TypeOK
<1>5. Fresh \in Entries
  BY DEF Fresh, Entries
<1>6. /\ row \in Transactions /\ row.request = c /\ row.at = at /\ row.status = "none"
      /\ row.added = Fresh /\ row.cache = Fresh /\ row.i = 1
  BY <1>2, <1>4, <1>5 DEF Begun, Transactions, Stages, Statuses
<1> HIDE DEF row
<1>7. tx'[h] = row /\ \A g \in Handlers \ {h} : tx'[g] = tx[g]
  BY <1>3, <1>6 DEF IInv, TypeOK, Goes
<1>8. Handler(h)'
  <2>1. Request(h)' = c /\ Personal(h)' = (kind = "PERSONAL" /\ c.kind = "create")
    BY <1>3, <1>6, <1>7 DEF Request, Personal
  <2> QED BY <1>2, <1>6, <1>7, <2>1 DEF Handler, Active, Resting, Answered, Fresh
<1>9. \A g \in Handlers \ {h} : Apart(g, h)' /\ Apart(h, g)'
  BY <1>6, <1>7 DEF Apart, Fresh
<1> QED BY <1>3, <1>6, <1>8, <1>9, QuietStep DEF IInv, TypeOK

LEMMA PrecheckStep ==
    ASSUME IInv, NEW h \in Handlers, Precheck(h)
    PROVE  IInv'
<1>1. tx[h] # Nothing /\ tx[h].at = "precheck"
  BY DEF Precheck, At
<1>2. Handler(h) /\ tx[h] \in Transactions
  BY <1>1 DEF IInv, TypeOK
<1>3. Personal(h) /\ Resting(h)
  BY <1>1, <1>2 DEF Handler, Active
<1>4. CASE ~Valid(Request(h))
  BY <1>1, <1>4, RefuseStep DEF Precheck, Statuses
<1>5. CASE Valid(Request(h)) /\ recipe[Request(h).name] # Nothing
  BY <1>1, <1>5, RefuseStep DEF Precheck, Statuses
<1>6. CASE Valid(Request(h)) /\ recipe[Request(h).name] = Nothing
  <2> DEFINE row == [tx[h] EXCEPT !.at = "select"]
  <2>1. /\ row \in Transactions /\ row.request = tx[h].request /\ row.at = "select" /\ row.i = tx[h].i
        /\ row.cache = tx[h].cache /\ row.added = tx[h].added
    BY <1>2 DEF Transactions, Stages
  <2>2. Goes(h, row) /\ UNCHANGED <<kind, access, catalogue, recipe, lock>>
    BY <1>6 DEF Precheck, rowVars
  <2> HIDE DEF row
  <2>3. kind # "SHARED" /\ Request(h).kind # "replace"
    BY <1>3 DEF Personal, Request
  <2> QED BY <1>1, <1>3, <1>6, <2>1, <2>2, <2>3, StartStep DEF Resting
<1> QED BY <1>4, <1>5, <1>6

LEMMA LockStep ==
    ASSUME IInv, NEW h \in Handlers, LockWorkspace(h)
    PROVE  IInv'
<1> DEFINE row == [tx[h] EXCEPT !.at = "check"]
<1>1. tx[h] # Nothing /\ tx[h].at = "lock" /\ lock = Nothing
  BY DEF LockWorkspace, At
<1>2. Handler(h) /\ tx[h] \in Transactions
  BY <1>1 DEF IInv, TypeOK
<1>3. /\ row \in Transactions /\ row.request = tx[h].request /\ row.at = "check" /\ row.i = tx[h].i
      /\ row.cache = tx[h].cache /\ row.added = tx[h].added /\ row.status = tx[h].status
  BY <1>2 DEF Transactions, Stages
<1>4. Goes(h, row) /\ lock' = h /\ UNCHANGED <<kind, access, catalogue, recipe>>
  BY DEF LockWorkspace, rowVars
<1> HIDE DEF row
<1>5. tx'[h] = row /\ \A g \in Handlers \ {h} : tx'[g] = tx[g]
  BY <1>3, <1>4 DEF IInv, TypeOK, Goes
<1>6. Resting(h)
  BY <1>1, <1>2 DEF Handler, Active
<1>7. Handler(h)'
  <2>1. Request(h)' = Request(h) /\ Personal(h)' = Personal(h)
    BY <1>3, <1>4, <1>5 DEF Request, Personal
  <2> QED BY <1>1, <1>2, <1>3, <1>4, <1>5, <1>6, <2>1 DEF Handler, Active, Resting, Answered, Fresh
<1>8. \A g \in Handlers \ {h} : Apart(g, h)' /\ Apart(h, g)'
  BY <1>3, <1>5, <1>6 DEF Apart, Fresh, Resting
<1> QED BY <1>1, <1>3, <1>4, <1>7, <1>8, QuietStep, RecipesAssumption

LEMMA CheckStep ==
    ASSUME IInv, NEW h \in Handlers, Check(h)
    PROVE  IInv'
<1> DEFINE c == Request(h)
           found == recipe[c.name]
           row == [tx[h] EXCEPT !.at = "select"]
<1>1. tx[h] # Nothing /\ tx[h].at = "check"
  BY DEF Check, At
<1>2. Handler(h) /\ tx[h] \in Transactions
  BY <1>1 DEF IInv, TypeOK
<1>3. Resting(h) /\ lock = h
  BY <1>1, <1>2 DEF Handler, Active, Resting
<1>4. ASSUME NEW status \in {"stale", "400", "404"}, Refuse(h, status)
      PROVE  IInv'
  BY <1>1, <1>4, RefuseStep DEF Statuses
<1>5. ASSUME Refuse(h, "name taken"), recipe[Request(h).name] # Nothing
      PROVE  IInv'
  BY <1>1, <1>5, RefuseStep DEF Statuses
<1>6. ASSUME Valid(c), c.kind = "create" => found = Nothing,
             c.kind = "replace" => found # Nothing /\ found.version = c.version,
             Goes(h, row), UNCHANGED <<kind, access, catalogue, recipe, lock>>
      PROVE  IInv'
  <2>1. /\ row \in Transactions /\ row.request = tx[h].request /\ row.at = "select" /\ row.i = tx[h].i
        /\ row.cache = tx[h].cache /\ row.added = tx[h].added
    BY <1>2 DEF Transactions, Stages
  <2> HIDE DEF row
  <2> QED BY <1>1, <1>3, <1>6, <2>1, StartStep DEF Resting
<1>7. CASE kind = "SHARED" /\ tx[h].access # access
  BY <1>4, <1>7 DEF Check
<1>8. CASE ~(kind = "SHARED" /\ tx[h].access # access) /\ ~Valid(c)
  BY <1>4, <1>8 DEF Check
<1>9. CASE ~(kind = "SHARED" /\ tx[h].access # access) /\ Valid(c)
  <2>1. c.kind \in {"create", "replace"}
    BY <1>2 DEF Transactions, CommandType, Request
  <2>2. CASE c.kind = "create" /\ found # Nothing
    BY <1>5, <1>9, <2>2 DEF Check
  <2>3. CASE c.kind = "create" /\ found = Nothing
    BY <1>6, <1>9, <2>3 DEF Check, rowVars
  <2>4. CASE c.kind = "replace" /\ found = Nothing
    BY <1>4, <1>9, <2>4 DEF Check
  <2>5. CASE c.kind = "replace" /\ found # Nothing /\ found.version # c.version
    BY <1>4, <1>9, <2>5 DEF Check
  <2>6. CASE c.kind = "replace" /\ found # Nothing /\ found.version = c.version
    BY <1>6, <1>9, <2>6 DEF Check, rowVars
  <2> QED BY <2>1, <2>2, <2>3, <2>4, <2>5, <2>6
<1> QED BY <1>7, <1>8, <1>9

\* The next ingredient is resolved: what was known of the others is kept.
LEMMA ResolvedProgress ==
    ASSUME TypeOK, NEW h \in Handlers, tx[h] # Nothing, Handler(h), tx[h].at \in {"select", "insert"},
           NEW default \in Degrees, default # Nothing,
           tx[h].cache[Mentions(Request(h))[tx[h].i]] \in {Nothing, default},
           tx'[h].request = tx[h].request, tx'[h].i = tx[h].i + 1,
           tx'[h].at = After(Request(h), tx[h].i),
           tx'[h].cache = [tx[h].cache EXCEPT ![Mentions(Request(h))[tx[h].i]] = default]
    PROVE  Progress(h)'
<1> DEFINE c == Request(h)
           i == tx[h].i
           slug == Mentions(c)[i]
           old == tx[h].cache
           new == [old EXCEPT ![slug] = default]
           p == Len(c.lines)
           q == Len(c.garnishes)
           all == Len(Mentions(c))
<1>1. tx[h] \in Transactions /\ c \in CommandType /\ i \in Nat /\ old \in Entries
  BY DEF TypeOK, Transactions, Request
<1>2. Progress(h)
  BY DEF Handler, Working, Active
<1>3. /\ i \in 1..(all + 1) /\ i <= all
      /\ \A j \in 1..all : j < i => old[Mentions(c)[j]] # Nothing
      /\ i > p => MainIsAlcoholic(c, old)
  BY <1>2 DEF Progress
<1>4. /\ p \in Nat \ {0} /\ q \in Nat /\ all = p + q
      /\ \A j \in 1..p : Mentions(c)[j] = c.lines[j].slug
  BY <1>1, MentionsFacts
<1>5. \A j \in 1..all : Mentions(c)[j] \in Slugs
  BY <1>1, MentionedFacts
<1>6. Request(h)' = c /\ tx'[h].i = i + 1 /\ tx'[h].at = After(c, i) /\ tx'[h].cache = new
  BY DEF Request
<1> HIDE DEF c, i, p, q, all
<1>7. i \in 1..all
  BY <1>1, <1>3, <1>4
<1>8. slug \in Slugs /\ old[slug] \in {Nothing, default}
  BY <1>5, <1>7 DEF c, i
<1> HIDE DEF slug
<1>9. new[slug] = default /\ \A s \in Slugs : old[s] # Nothing => new[s] = old[s]
  BY <1>1, <1>8 DEF Entries
<1> HIDE DEF new
<1>10. \A j \in 1..all : j < i + 1 => new[Mentions(c)[j]] # Nothing
  <2>1. ASSUME NEW j \in 1..all, j < i + 1 PROVE new[Mentions(c)[j]] # Nothing
    <3>1. CASE j = i
      BY <1>9, <3>1 DEF slug
    <3>2. CASE j < i
      BY <1>3, <1>5, <1>9, <3>2
    <3> QED BY <1>1, <2>1, <3>1, <3>2
  <2> QED BY <2>1
<1>11. /\ After(c, i) = "main" => i + 1 = p + 1
       /\ After(c, i) = "select" => i + 1 <= all
       /\ After(c, i) = "write" => i + 1 = all + 1
       /\ After(c, i) # "main" => i # p
       /\ After(c, i) \in {"main", "select", "write"}
  <2>1. After(c, i) = IF i = p THEN "main" ELSE IF i = all THEN "write" ELSE "select"
    BY DEF After, p, all
  <2> QED BY <1>1, <1>3, <1>4, <2>1
<1>12. i + 1 > p /\ After(c, i) # "main" => MainIsAlcoholic(c, new)
  <2>1. SUFFICES ASSUME i + 1 > p, After(c, i) # "main" PROVE MainIsAlcoholic(c, new)
    OBVIOUS
  <2>2. i > p
    BY <1>1, <1>4, <1>11, <2>1
  <2>3. MainIsAlcoholic(c, old)
    BY <1>3, <2>2
  <2>4. ASSUME NEW j \in 1..p PROVE old[c.lines[j].slug] = new[c.lines[j].slug]
    <3>1. j \in 1..all /\ j < i
      BY <1>1, <1>4, <2>2
    <3>2. Mentions(c)[j] = c.lines[j].slug /\ Mentions(c)[j] \in Slugs /\ old[Mentions(c)[j]] # Nothing
      BY <1>3, <1>4, <1>5, <3>1
    <3> QED BY <1>9, <3>2
  <2> QED BY <1>1, <2>3, <2>4, SameMain DEF p
<1>13. i + 1 \in 1..(all + 1)
  BY <1>1, <1>3, <1>4
<1>14. /\ tx'[h].i \in 1..(Len(Mentions(c)) + 1)
       /\ \A j \in 1..Len(Mentions(c)) : j < tx'[h].i => tx'[h].cache[Mentions(c)[j]] # Nothing
       /\ tx'[h].at \in {"select", "insert"} => tx'[h].i <= Len(Mentions(c))
       /\ tx'[h].at # "insert" /\ tx'[h].at # "commit"
       /\ tx'[h].at = "main" => tx'[h].i = Len(c.lines) + 1
       /\ tx'[h].at \in {"write", "commit"} => tx'[h].i = Len(Mentions(c)) + 1
       /\ tx'[h].i > Len(c.lines) /\ tx'[h].at # "main" => MainIsAlcoholic(c, tx'[h].cache)
  <2>1. /\ i + 1 \in 1..(all + 1)
        /\ \A j \in 1..all : j < i + 1 => new[Mentions(c)[j]] # Nothing
        /\ After(c, i) \in {"select", "insert"} => i + 1 <= all
        /\ After(c, i) # "insert" /\ After(c, i) # "commit"
        /\ After(c, i) = "main" => i + 1 = p + 1
        /\ After(c, i) \in {"write", "commit"} => i + 1 = all + 1
        /\ i + 1 > p /\ After(c, i) # "main" => MainIsAlcoholic(c, new)
    BY <1>10, <1>11, <1>12, <1>13
  <2> QED BY <1>6, <2>1, Zenon DEF p, all
<1> QED BY <1>6, <1>14 DEF Progress

LEMMA AfterFacts ==
    ASSUME NEW c, NEW i
    PROVE  After(c, i) \in Stages /\ After(c, i) \in Active /\ After(c, i) \notin {"insert", "commit"}
BY DEF After, Stages, Active

\* What is true of the ingredient a transaction is about to resolve.
LEMMA NextIngredient ==
    ASSUME TypeOK, NEW h \in Handlers, tx[h] # Nothing, Handler(h), tx[h].at \in {"select", "insert"}
    PROVE  /\ tx[h] \in Transactions /\ Working(h)
           /\ Request(h) \in CommandType /\ Request(h) \in Commands
           /\ Mentions(Request(h))[tx[h].i] \in Slugs
           /\ Mentions(Request(h))[tx[h].i] \in Mentioned(Request(h))
<1>1. tx[h] \in Transactions /\ Request(h) \in CommandType /\ Request(h) \in Commands
  BY DEF TypeOK, Transactions, Request, Handler
<1>2. Working(h) /\ Progress(h)
  BY DEF Handler, Working, Active
<1>3. tx[h].i \in 1..(Len(Mentions(Request(h))) + 1) /\ tx[h].i <= Len(Mentions(Request(h)))
  BY <1>2 DEF Progress
<1>4. Len(Mentions(Request(h))) \in Nat
  <2>1. Mentions(Request(h)) \in Seq(Slugs)
    BY <1>1, MentionsFacts
  <2> QED BY <2>1, LenProperties
<1>5. \A n \in Nat : \A i \in 1..(n + 1) : i <= n => i \in 1..n
  OBVIOUS
<1>6. tx[h].i \in 1..Len(Mentions(Request(h)))
  BY <1>3, <1>4, <1>5, Zenon
<1> QED BY <1>1, <1>2, <1>6, MentionedFacts

LEMMA SelectStep ==
    ASSUME IInv, NEW h \in Handlers, Select(h)
    PROVE  IInv'
<1> DEFINE c == Request(h)
           slug == Mentions(c)[tx[h].i]
           known == IF tx[h].cache[slug] # Nothing THEN tx[h].cache[slug] ELSE catalogue[slug]
<1>1. tx[h] # Nothing /\ tx[h].at = "select" /\ TypeOK /\ Handler(h)
  BY DEF Select, At, IInv
<1>2. /\ tx[h] \in Transactions /\ Working(h) /\ c \in CommandType /\ c \in Commands
      /\ slug \in Slugs /\ slug \in Mentioned(c)
  BY <1>1, NextIngredient
<1>3. UNCHANGED <<kind, access, catalogue, recipe, lock>>
  BY DEF Select, rowVars
<1>4. /\ tx[h].cache \in Entries /\ tx[h].added \in Entries /\ catalogue \in Entries
      /\ tx[h].i \in Nat
  BY <1>1, <1>2 DEF TypeOK, Transactions
<1>5. CASE known # Nothing
  <2> DEFINE map == [tx[h].cache EXCEPT ![slug] = known]
             row == [tx[h] EXCEPT !.cache = map, !.i = tx[h].i + 1, !.at = After(c, tx[h].i)]
  <2>1. Goes(h, row)
    BY <1>5 DEF Select, Resolved
  <2>2. known \in Degrees /\ tx[h].cache[slug] \in {Nothing, known}
    BY <1>2, <1>4, <1>5 DEF Entries
  <2> HIDE DEF known
  <2>3. map \in Entries
    BY <1>4, <2>2 DEF Entries
  <2> HIDE DEF map
  <2> DEFINE next == After(c, tx[h].i)
             count == tx[h].i + 1
  <2>n. next \in Stages /\ count \in Nat
    BY <1>4, AfterFacts
  <2> HIDE DEF next, count
  <2>4. /\ row \in Transactions /\ row.request = tx[h].request /\ row.at = After(c, tx[h].i)
        /\ row.i = tx[h].i + 1 /\ row.cache = map /\ row.added = tx[h].added
        /\ row.status = tx[h].status
    <3>1. row = [tx[h] EXCEPT !.cache = map, !.i = count, !.at = next]
      BY DEF next, count
    <3> HIDE DEF row
    <3>2. /\ row \in Transactions /\ row.request = tx[h].request /\ row.at = next
          /\ row.i = count /\ row.cache = map /\ row.added = tx[h].added /\ row.status = tx[h].status
      BY <1>2, <2>3, <2>n, <3>1 DEF Transactions
    <3> QED BY <3>2 DEF next, count
  <2> HIDE DEF row
  <2>5. tx'[h] = row
    BY <1>1, <2>1 DEF TypeOK, Goes
  <2>6. Progress(h)'
    BY <1>1, <1>5, <2>2, <2>4, <2>5, ResolvedProgress DEF map
  <2>7. Request(h)' = c /\ Personal(h)' = Personal(h)
    BY <1>3, <2>4, <2>5 DEF Request, Personal
  <2>8. MapHolds(h)'
    <3>1. MapHolds(h)
      BY <1>2 DEF Working
    <3>2. \A s \in Slugs \ {slug} : map[s] = tx[h].cache[s]
      BY <1>4 DEF Entries, map
    <3>3. map[slug] = known
      BY <1>2, <1>4 DEF Entries, map
    <3>4. tx[h].added[slug] = Nothing => known = catalogue[slug]
      BY <1>2, <1>5, <3>1 DEF MapHolds, known
    <3>5. tx[h].added[slug] # Nothing => known = tx[h].added[slug]
      BY <1>2, <1>5, <3>1 DEF MapHolds, known
    <3> HIDE DEF slug
    <3>6. ASSUME NEW s \in Slugs
          PROVE  /\ tx[h].added[s] = Nothing => map[s] \in {Nothing, catalogue[s]}
                 /\ tx[h].added[s] # Nothing => /\ catalogue[s] = Nothing
                                                /\ tx[h].added[s] = AskedDefault(c, s)
                                                /\ map[s] = tx[h].added[s]
                 /\ map[s] # Nothing => s \in Mentioned(c)
      <4>1. CASE s = slug
        BY <1>2, <3>1, <3>3, <3>4, <3>5, <4>1 DEF MapHolds
      <4>2. CASE s # slug
        BY <3>1, <3>2, <4>2 DEF MapHolds
      <4> QED BY <4>1, <4>2
    <3> QED BY <1>3, <2>4, <2>5, <2>7, <3>6 DEF MapHolds
  <2>9. RowHolds(h)' /\ WrittenHolds(h)'
    BY <1>2, <1>3, <2>4, <2>5, <2>7, AfterFacts DEF Working, RowHolds, WrittenHolds
  <2>10. Working(h)'
    BY <1>2, <2>6, <2>7, <2>8, <2>9 DEF Working
  <2>11. Handler(h)'
    BY <1>2, <2>4, <2>5, <2>7, <2>10, AfterFacts DEF Handler, Active, Answered
  <2> QED BY <1>1, <1>3, <2>1, <2>4, <2>11, AfterFacts, GoesOn
<1>6. CASE known = Nothing
  <2> DEFINE row == [tx[h] EXCEPT !.at = "insert"]
  <2>1. Goes(h, row)
    BY <1>6 DEF Select
  <2>2. tx[h].cache[slug] = Nothing /\ catalogue[slug] = Nothing
    BY <1>6
  <2>3. /\ row \in Transactions /\ row.request = tx[h].request /\ row.at = "insert" /\ row.i = tx[h].i
        /\ row.cache = tx[h].cache /\ row.added = tx[h].added /\ row.status = tx[h].status
    BY <1>2 DEF Transactions, Stages
  <2> HIDE DEF row
  <2>4. tx'[h] = row
    BY <1>1, <2>1, <2>3 DEF TypeOK, Goes
  <2>5. Request(h)' = c /\ Personal(h)' = Personal(h)
    BY <1>3, <2>3, <2>4 DEF Request, Personal
  <2>6. Progress(h)'
    BY <1>1, <1>2, <2>2, <2>3, <2>4, <2>5 DEF Working, Progress
  <2>7. MapHolds(h)'
    BY <1>2, <1>3, <2>3, <2>4, <2>5 DEF Working, MapHolds
  <2>8. RowHolds(h)' /\ WrittenHolds(h)'
    BY <1>2, <1>3, <2>2, <2>3, <2>4, <2>5 DEF Working, RowHolds, WrittenHolds
  <2>9. Working(h)'
    BY <1>2, <2>5, <2>6, <2>7, <2>8 DEF Working
  <2>10. Handler(h)'
    BY <1>2, <2>3, <2>4, <2>5, <2>9 DEF Handler, Active, Answered
  <2> QED BY <1>1, <1>3, <2>1, <2>3, <2>10, GoesOn
<1> QED BY <1>5, <1>6

LEMMA InsertStep ==
    ASSUME IInv, NEW h \in Handlers, Insert(h)
    PROVE  IInv'
<1> DEFINE c == Request(h)
           slug == Mentions(c)[tx[h].i]
           default == AskedDefault(c, slug)
           map == [tx[h].cache EXCEPT ![slug] = default]
           inserted == [tx[h].added EXCEPT ![slug] = default]
           next == After(c, tx[h].i)
           count == tx[h].i + 1
           row == [tx[h] EXCEPT !.cache = map, !.i = count, !.at = next]
           new == [row EXCEPT !.added = inserted]
<1>1. tx[h] # Nothing /\ tx[h].at = "insert" /\ TypeOK /\ Handler(h)
  BY DEF Insert, At, IInv
<1>2. /\ tx[h] \in Transactions /\ Working(h) /\ c \in CommandType /\ c \in Commands
      /\ slug \in Slugs /\ slug \in Mentioned(c)
  BY <1>1, NextIngredient
<1>3. UNCHANGED <<kind, access, catalogue, recipe, lock>>
  BY DEF Insert, rowVars
<1>4. /\ tx[h].cache \in Entries /\ tx[h].added \in Entries /\ catalogue \in Entries
      /\ tx[h].i \in Nat
  BY <1>1, <1>2 DEF TypeOK, Transactions
<1>5. default \in Degrees /\ default # Nothing
  BY <1>2, AskedIsDegree
<1>6. tx[h].cache[slug] = Nothing /\ InFlight(h, slug) = {} /\ catalogue[slug] = Nothing
  BY <1>1, <1>2 DEF Insert, Working, Progress
<1>7. Goes(h, new)
  BY DEF Insert, Resolved
<1>8. /\ map \in Entries /\ map[slug] = default /\ \A s \in Slugs \ {slug} : map[s] = tx[h].cache[s]
      /\ inserted \in Entries /\ inserted[slug] = default
      /\ \A s \in Slugs \ {slug} : inserted[s] = tx[h].added[s]
  <2> HIDE DEF default, slug
  <2> QED BY <1>2, <1>4, <1>5 DEF Entries
<1>9. next \in Stages /\ next \in Active /\ next \notin {"insert", "commit"} /\ count \in Nat
  BY <1>4, AfterFacts
<1>10. /\ new \in Transactions /\ new.request = tx[h].request /\ new.at = next /\ new.i = count
       /\ new.cache = map /\ new.added = inserted /\ new.status = tx[h].status
  <2> HIDE DEF map, inserted, next, count
  <2> QED BY <1>2, <1>8, <1>9 DEF Transactions
<1> HIDE DEF new, row
<1>11. tx'[h] = new /\ \A g \in Handlers \ {h} : tx'[g] = tx[g]
  BY <1>1, <1>7 DEF TypeOK, Goes
<1>12. Request(h)' = c /\ Personal(h)' = Personal(h)
  BY <1>3, <1>10, <1>11 DEF Request, Personal
<1>13. Progress(h)'
  <2>1. /\ default \in Degrees /\ default # Nothing
        /\ tx[h].cache[Mentions(Request(h))[tx[h].i]] \in {Nothing, default}
        /\ tx'[h].request = tx[h].request /\ tx'[h].i = tx[h].i + 1
        /\ tx'[h].at = After(Request(h), tx[h].i)
        /\ tx'[h].cache = [tx[h].cache EXCEPT ![Mentions(Request(h))[tx[h].i]] = default]
    BY <1>5, <1>6, <1>10, <1>11
  <2> HIDE DEF default
  <2> QED BY <1>1, <2>1, ResolvedProgress
<1> HIDE DEF map, inserted, next, count
<1>14. MapHolds(h)'
  <2>1. MapHolds(h)
    BY <1>2 DEF Working
  <2>2. ASSUME NEW s \in Slugs
        PROVE  /\ inserted[s] = Nothing => map[s] \in {Nothing, catalogue[s]}
               /\ inserted[s] # Nothing => /\ catalogue[s] = Nothing
                                           /\ inserted[s] = AskedDefault(c, s)
                                           /\ map[s] = inserted[s]
               /\ map[s] # Nothing => s \in Mentioned(c)
    <3>1. CASE s = slug
      BY <1>2, <1>5, <1>6, <1>8, <3>1
    <3>2. CASE s # slug
      BY <1>8, <2>1, <3>2 DEF MapHolds
    <3> QED BY <3>1, <3>2
  <2> QED BY <1>3, <1>10, <1>11, <1>12, <2>2 DEF MapHolds
<1>15. RowHolds(h)' /\ WrittenHolds(h)'
  BY <1>2, <1>3, <1>9, <1>10, <1>11, <1>12 DEF Working, RowHolds, WrittenHolds
<1>16. Working(h)'
  BY <1>2, <1>12, <1>13, <1>14, <1>15 DEF Working
<1>17. Handler(h)'
  BY <1>2, <1>9, <1>10, <1>11, <1>12, <1>16 DEF Handler, Active, Answered
<1>18. ASSUME NEW g \in Handlers \ {h} PROVE Apart(g, h)' /\ Apart(h, g)'
  <2>1. Apart(g, h) /\ Apart(h, g)
    BY DEF IInv
  <2>2. tx[g] # Nothing => tx[g].added[slug] = Nothing
    BY <1>6 DEF InFlight
  <2>3. tx[g] # Nothing => \A s \in Slugs : tx[g].added[s] = Nothing \/ inserted[s] = Nothing
    BY <1>1, <1>8, <2>1, <2>2 DEF Apart
  <2> QED BY <1>9, <1>10, <1>11, <2>3 DEF Apart
<1>19. lock' \in Handlers \cup {Nothing} /\ \A g \in Handlers \ {h} : lock = g => lock' = g
  BY <1>1, <1>3 DEF TypeOK
<1> QED BY <1>3, <1>7, <1>10, <1>17, <1>18, <1>19, QuietStep

LEMMA IngredientTakenStep ==
    ASSUME IInv, NEW h \in Handlers, IngredientTaken(h)
    PROVE  IInv'
<1> DEFINE c == Request(h)
           row == Begun(c, 0, "select", tx[h].retries + 1)
<1>1. tx[h] # Nothing /\ tx[h].at = "insert" /\ TypeOK /\ Handler(h)
  BY DEF IngredientTaken, At, IInv
<1>2. tx[h] \in Transactions /\ Working(h) /\ c \in CommandType
  BY <1>1, NextIngredient
<1>3. catalogue[Mentions(c)[tx[h].i]] # Nothing
  BY DEF IngredientTaken
<1>4. c.kind = "create" => kind # "SHARED"
  <2>1. kind = "SHARED" => catalogue[Mentions(c)[tx[h].i]] = Nothing
    BY <1>1, <1>2 DEF Working, RowHolds
  <2> QED BY <1>3, <2>1
<1>5. CASE ~Personal(h)
  <2>1. Refuse(h, "raced")
    BY <1>5 DEF IngredientTaken
  <2> QED BY <1>1, <1>4, <2>1, RefuseStep DEF Statuses
<1>6. CASE Personal(h) /\ tx[h].retries = MaxCatalogRetries
  <2>1. Refuse(h, "503")
    BY <1>6 DEF IngredientTaken
  <2> QED BY <1>1, <2>1, RefuseStep DEF Statuses
<1>7. CASE Personal(h) /\ tx[h].retries # MaxCatalogRetries
  <2>1. Goes(h, row) /\ UNCHANGED <<kind, access, catalogue, recipe, lock>>
    BY <1>7 DEF IngredientTaken, rowVars
  <2>2. tx[h].retries + 1 \in 0..MaxCatalogRetries /\ 0 \in 0..MaxAccess
    BY <1>2, <1>7, RecipesAssumption DEF Transactions
  <2>3. Fresh \in Entries
    BY DEF Fresh, Entries
  <2>4. /\ row \in Transactions /\ row.request = tx[h].request /\ row.at = "select" /\ row.i = 1
        /\ row.cache = Fresh /\ row.added = Fresh
    BY <1>2, <2>2, <2>3 DEF Begun, Transactions, Stages, Statuses, Request
  <2> HIDE DEF row
  <2>5. Valid(c) /\ kind # "SHARED" /\ c.kind # "replace"
    BY <1>2, <1>7 DEF Working, Personal, Request
  <2> QED BY <1>1, <1>7, <2>1, <2>4, <2>5, StartStep
<1> QED BY <1>5, <1>6, <1>7

LEMMA CheckMainStep ==
    ASSUME IInv, NEW h \in Handlers, CheckMain(h)
    PROVE  IInv'
<1> DEFINE c == Request(h)
           at == IF c.garnishes = <<>> THEN "write" ELSE "select"
           row == [tx[h] EXCEPT !.at = at]
<1>1. tx[h] # Nothing /\ tx[h].at = "main" /\ TypeOK /\ Handler(h)
  BY DEF CheckMain, At, IInv
<1>2. tx[h] \in Transactions /\ Working(h) /\ c \in CommandType /\ c \in Commands
  BY <1>1 DEF TypeOK, Transactions, Request, Handler, Active
<1>3. CASE ~MainIsAlcoholic(c, tx[h].cache)
  <2>1. Refuse(h, "400")
    BY <1>3 DEF CheckMain
  <2> QED BY <1>1, <2>1, RefuseStep DEF Statuses
<1>4. CASE MainIsAlcoholic(c, tx[h].cache)
  <2>1. Goes(h, row) /\ UNCHANGED <<kind, access, catalogue, recipe, lock>>
    BY <1>4 DEF CheckMain, rowVars
  <2>2. at \in {"write", "select"}
    OBVIOUS
  <2>3. /\ row \in Transactions /\ row.request = tx[h].request /\ row.at = at /\ row.i = tx[h].i
        /\ row.cache = tx[h].cache /\ row.added = tx[h].added /\ row.status = tx[h].status
    <3> HIDE DEF at
    <3> QED BY <1>2, <2>2 DEF Transactions, Stages
  <2> HIDE DEF row
  <2>4. tx'[h] = row
    BY <1>1, <2>1 DEF TypeOK, Goes
  <2>5. Request(h)' = c /\ Personal(h)' = Personal(h)
    BY <2>1, <2>3, <2>4 DEF Request, Personal
  <2>6. Progress(h)'
    <3> DEFINE p == Len(c.lines)
               q == Len(c.garnishes)
               all == Len(Mentions(c))
    <3>1. p \in Nat \ {0} /\ q \in Nat /\ all = p + q /\ (c.garnishes = <<>> <=> q = 0)
      BY <1>2, MentionsFacts
    <3>2. tx[h].i = p + 1 /\ \A j \in 1..all : j < tx[h].i => tx[h].cache[Mentions(c)[j]] # Nothing
      BY <1>1, <1>2 DEF Working, Progress
    <3> HIDE DEF p, q, all, c
    <3>3. /\ tx[h].i \in 1..(all + 1) /\ (at = "select" => tx[h].i <= all)
          /\ (at = "write" => tx[h].i = all + 1)
      BY <3>1, <3>2
    <3> HIDE DEF at
    <3>4. /\ tx'[h].i \in 1..(all + 1)
          /\ \A j \in 1..all : j < tx'[h].i => tx'[h].cache[Mentions(c)[j]] # Nothing
          /\ tx'[h].at \in {"select", "insert"} => tx'[h].i <= all
          /\ tx'[h].at # "insert" /\ tx'[h].at # "main"
          /\ tx'[h].at \in {"write", "commit"} => tx'[h].i = all + 1
          /\ MainIsAlcoholic(c, tx'[h].cache)
      BY <1>4, <2>2, <2>3, <2>4, <3>2, <3>3
    <3> QED BY <2>5, <3>4 DEF Progress, all
  <2>7. MapHolds(h)'
    BY <1>2, <2>1, <2>3, <2>4, <2>5 DEF Working, MapHolds
  <2> HIDE DEF at
  <2>8. RowHolds(h)' /\ WrittenHolds(h)'
    BY <1>2, <2>1, <2>2, <2>3, <2>4, <2>5 DEF Working, RowHolds, WrittenHolds
  <2>9. Working(h)'
    BY <1>2, <2>5, <2>6, <2>7, <2>8 DEF Working
  <2>10. Handler(h)'
    BY <1>2, <2>2, <2>3, <2>4, <2>5, <2>9 DEF Handler, Active, Answered
  <2> QED BY <1>1, <2>1, <2>2, <2>3, <2>10, GoesOn
<1> QED BY <1>3, <1>4

LEMMA WriteStep ==
    ASSUME IInv, NEW h \in Handlers, Write(h)
    PROVE  IInv'
<1> DEFINE c == Request(h)
           content == Content(c, tx[h].cache)
           old == recipe[c.name]
           row == IF c.kind = "create" THEN [version |-> 0, content |-> content]
                  ELSE IF old.content = content THEN old
                  ELSE [version |-> old.version + 1, content |-> content]
           new == [tx[h] EXCEPT !.at = "commit", !.written = row]
<1>1. tx[h] # Nothing /\ tx[h].at = "write" /\ TypeOK /\ Handler(h)
  BY DEF Write, At, IInv
<1>2. tx[h] \in Transactions /\ Working(h) /\ c \in CommandType /\ c \in Commands
  BY <1>1 DEF TypeOK, Transactions, Request, Handler, Active
<1>3. c.kind \in {"create", "replace"} /\ c.name \in Names
  BY <1>2 DEF CommandType
<1>4. c.kind = "replace" => old \in Rows /\ old.version = c.version /\ old # Nothing
  BY <1>1, <1>2, <1>3 DEF Working, RowHolds, TypeOK
<1>5. CASE c.kind = "create" /\ old # Nothing
  <2>1. Refuse(h, IF Personal(h) THEN "name taken" ELSE "raced")
    BY <1>5 DEF Write
  <2>2. kind # "SHARED"
    BY <1>2, <1>5 DEF Working, RowHolds
  <2> QED BY <1>1, <1>5, <2>1, <2>2, RefuseStep DEF Statuses
<1>6. CASE c.kind = "replace" /\ row # old /\ old.version = MaxVersion
  <2>1. Refuse(h, "full")
    BY <1>6 DEF Write
  <2> QED BY <1>1, <1>6, <2>1, RefuseStep DEF Statuses
<1>7. CASE ~(c.kind = "create" /\ old # Nothing)
           /\ ~(c.kind = "replace" /\ row # old /\ old.version = MaxVersion)
  <2>1. Goes(h, new) /\ UNCHANGED <<kind, access, catalogue, recipe, lock>>
    BY <1>7 DEF Write, rowVars
  <2>2. content \in ContentType
    BY <1>2, ContentFacts
  <2> HIDE DEF c, content
  <2>3. \/ c.kind = "create" /\ old = Nothing /\ row = [version |-> 0, content |-> content]
        \/ c.kind = "replace" /\ old.content = content /\ row = old
        \/ /\ c.kind = "replace" /\ c.version < MaxVersion
           /\ row = [version |-> c.version + 1, content |-> content]
    <3>1. CASE c.kind = "create"
      BY <1>7, <3>1
    <3>2. CASE c.kind = "replace" /\ old.content = content
      BY <3>2
    <3>3. CASE c.kind = "replace" /\ old.content # content
      <4>1. row = [version |-> old.version + 1, content |-> content]
        BY <3>3
      <4>2. row.content = content
        BY <4>1
      <4>3. old.version # MaxVersion
        BY <1>7, <3>3, <4>2
      <4>4. old.version \in 0..MaxVersion
        BY <1>4, <3>3 DEF Rows
      <4>5. old.version < MaxVersion
        BY <4>3, <4>4, RecipesAssumption
      <4> QED BY <1>4, <3>3, <4>1, <4>5
    <3> QED BY <1>3, <3>1, <3>2, <3>3
  <2>4. row \in Rows
    <3>1. c.version \in 0..MaxVersion
      BY <1>2, CommandsAreTyped
    <3>2. CASE c.kind = "create" /\ row = [version |-> 0, content |-> content]
      BY <2>2, <3>2, RecipesAssumption DEF Rows
    <3>3. CASE c.kind = "replace" /\ row = old
      BY <1>4, <3>3
    <3>4. CASE c.version < MaxVersion /\ row = [version |-> c.version + 1, content |-> content]
      <4>1. c.version + 1 \in 0..MaxVersion
        BY <3>1, <3>4, RecipesAssumption
      <4> QED BY <2>2, <3>4, <4>1 DEF Rows
    <3> QED BY <2>3, <3>2, <3>3, <3>4
  <2> HIDE DEF row
  <2>5. /\ new \in Transactions /\ new.request = tx[h].request /\ new.at = "commit" /\ new.i = tx[h].i
        /\ new.cache = tx[h].cache /\ new.added = tx[h].added /\ new.status = tx[h].status
        /\ new.written = row
    BY <1>2, <2>4 DEF Transactions, Stages
  <2> HIDE DEF new
  <2>6. tx'[h] = new /\ \A g \in Handlers \ {h} : tx'[g] = tx[g]
    BY <1>1, <2>1, <2>5 DEF TypeOK, Goes
  <2>7. Request(h)' = c /\ Personal(h)' = Personal(h)
    BY <2>1, <2>5, <2>6 DEF Request, Personal, c
  <2>8. Progress(h)'
    BY <1>1, <1>2, <2>5, <2>6, <2>7 DEF Working, Progress, c
  <2>9. MapHolds(h)'
    BY <1>2, <2>1, <2>5, <2>6, <2>7 DEF Working, MapHolds, c
  <2>10. RowHolds(h)'
    BY <1>2, <2>1, <2>5, <2>6, <2>7 DEF Working, RowHolds, c
  <2>11. WrittenHolds(h)'
    <3>1. Content(Request(h)', tx'[h].cache) = content
      BY <2>5, <2>6, <2>7 DEF content
    <3> QED BY <2>1, <2>3, <2>4, <2>5, <2>6, <2>7, <3>1 DEF WrittenHolds
  <2>12. Working(h)'
    BY <1>2, <2>7, <2>8, <2>9, <2>10, <2>11 DEF Working, c
  <2>13. Handler(h)'
    BY <1>2, <2>5, <2>6, <2>7, <2>12 DEF Handler, Active, Answered
  <2>14. ASSUME NEW g \in Handlers \ {h} PROVE Apart(g, h)' /\ Apart(h, g)'
    <3>1. Apart(g, h) /\ Apart(h, g)
      BY DEF IInv
    <3>2. Request(g)' = Request(g)
      BY <2>6 DEF Request
    <3>3. tx[g] # Nothing /\ tx[g].at = "commit" /\ Request(g).kind = "create" /\ c.kind = "create"
          => Request(g).name # c.name
      BY DEF Write, Writing, At, c
    <3> QED BY <1>1, <2>5, <2>6, <2>7, <3>1, <3>2, <3>3 DEF Apart
  <2>15. lock' \in Handlers \cup {Nothing} /\ \A g \in Handlers \ {h} : lock = g => lock' = g
    BY <1>1, <2>1 DEF TypeOK
  <2> QED BY <2>1, <2>5, <2>13, <2>14, <2>15, QuietStep
<1> QED BY <1>5, <1>6, <1>7

LEMMA ReplyStep ==
    ASSUME IInv, NEW h \in Handlers, Reply(h)
    PROVE  IInv'
<1>1. Goes(h, Nothing) /\ UNCHANGED <<kind, access, catalogue, recipe, lock>>
  BY DEF Reply, rowVars
<1>2. tx'[h] = Nothing
  BY <1>1 DEF IInv, TypeOK, Goes
<1>3. Handler(h)' /\ \A g \in Handlers \ {h} : Apart(g, h)' /\ Apart(h, g)'
  BY <1>2 DEF Handler, Apart
<1>4. lock' \in Handlers \cup {Nothing} /\ \A g \in Handlers \ {h} : lock = g => lock' = g
  BY <1>1 DEF IInv, TypeOK
<1> QED BY <1>1, <1>3, <1>4, QuietStep

LEMMA AccessStep ==
    ASSUME IInv, AccessMoves
    PROVE  IInv'
<1>1. UNCHANGED <<kind, catalogue, recipe, lock, tx>> /\ access' = access + 1 /\ access < MaxAccess
  BY DEF AccessMoves, rowVars
<1>2. access' \in 0..MaxAccess
  BY <1>1, RecipesAssumption DEF IInv, TypeOK
<1>3. TypeOK'
  BY <1>1, <1>2 DEF IInv, TypeOK
<1>4. \A h \in Handlers : Handler(h)'
  BY <1>1, OthersKeep DEF IInv
<1>5. \A f, g \in Handlers : f # g => Apart(f, g)'
  BY <1>1 DEF IInv, Apart, Request
<1>6. \A n \in Names : recipe'[n] # Nothing => Catalogued(recipe[n].content)'
  BY <1>1 DEF IInv, Catalogued
<1> QED BY <1>3, <1>4, <1>5, <1>6 DEF IInv

\* What a transaction commits: its recipe, and the catalogue that a command
\* running alone would leave.
LEMMA CommitFacts ==
    ASSUME IInv, NEW h \in Handlers, Commit(h)
    PROVE  LET c == Request(h)
               content == Content(c, tx[h].cache)
           IN /\ tx[h] # Nothing /\ tx[h] \in Transactions /\ tx[h].at = "commit" /\ Working(h)
              /\ c \in CommandType /\ c \in Commands /\ c.name \in Names
              /\ tx[h].written \in Rows /\ tx[h].written.content = content
              /\ recipe' = [recipe EXCEPT ![c.name] = tx[h].written]
              /\ catalogue' \in Entries
              /\ \A s \in Slugs : tx[h].added[s] = Nothing => catalogue'[s] = catalogue[s]
              /\ \A s \in Slugs : tx[h].added[s] # Nothing =>
                    /\ catalogue[s] = Nothing /\ s \in Mentioned(c)
                    /\ catalogue'[s] = AskedDefault(c, s)
              /\ \A s \in Slugs : catalogue[s] # Nothing => catalogue'[s] = catalogue[s]
              /\ \A s \in Mentioned(c) : catalogue'[s] = tx[h].cache[s] /\ catalogue'[s] # Nothing
<1> DEFINE c == Request(h)
           content == Content(c, tx[h].cache)
<1>1. tx[h] # Nothing /\ tx[h].at = "commit" /\ TypeOK /\ Handler(h)
  BY DEF Commit, At, IInv
<1>2. tx[h] \in Transactions /\ Working(h) /\ c \in CommandType /\ c \in Commands /\ c.name \in Names
  BY <1>1 DEF TypeOK, Transactions, Request, Handler, Active, CommandType
<1>3. tx[h].written \in Rows /\ tx[h].written.content = content
  BY <1>1, <1>2 DEF Working, WrittenHolds
<1>4. recipe' = [recipe EXCEPT ![c.name] = tx[h].written]
  BY DEF Commit
<1>5. /\ tx[h].cache \in Entries /\ tx[h].added \in Entries /\ catalogue \in Entries
  BY <1>1, <1>2 DEF TypeOK, Transactions
<1>6. catalogue' = [s \in Slugs |-> IF tx[h].added[s] # Nothing THEN tx[h].added[s] ELSE catalogue[s]]
  BY DEF Commit
<1>7. catalogue' \in Entries
  BY <1>5, <1>6 DEF Entries
<1>8. MapHolds(h)
  BY <1>2 DEF Working
<1>9. \A s \in Slugs : tx[h].added[s] = Nothing => catalogue'[s] = catalogue[s]
  BY <1>6
<1>10. \A s \in Slugs : tx[h].added[s] # Nothing => /\ catalogue[s] = Nothing /\ s \in Mentioned(c)
                    /\ catalogue'[s] = AskedDefault(c, s) /\ catalogue'[s] = tx[h].cache[s]
  BY <1>6, <1>8 DEF MapHolds
<1>11. \A s \in Slugs : catalogue[s] # Nothing => catalogue'[s] = catalogue[s]
  BY <1>9, <1>10
<1>12. ASSUME NEW s \in Mentioned(c) PROVE tx[h].cache[s] # Nothing /\ s \in Slugs
  <2> DEFINE all == Len(Mentions(c))
  <2>1. PICK j \in 1..all : s = Mentions(c)[j]
    BY DEF Mentioned
  <2>2. tx[h].i = all + 1 /\ \A k \in 1..all : k < tx[h].i => tx[h].cache[Mentions(c)[k]] # Nothing
    BY <1>1, <1>2 DEF Working, Progress
  <2>3. all \in Nat
    BY <1>2, MentionsFacts, LenProperties
  <2> HIDE DEF all
  <2>4. j < tx[h].i
    BY <2>2, <2>3
  <2>5. s \in Slugs
    BY <1>2, MentionedFacts
  <2> QED BY <2>1, <2>2, <2>4, <2>5
<1>13. ASSUME NEW s \in Mentioned(c) PROVE catalogue'[s] = tx[h].cache[s] /\ catalogue'[s] # Nothing
  <2>1. CASE tx[h].added[s] # Nothing
    BY <1>10, <1>12, <2>1
  <2>2. CASE tx[h].added[s] = Nothing
    <3>1. tx[h].cache[s] = catalogue[s]
      BY <1>8, <1>12, <2>2 DEF MapHolds
    <3> QED BY <1>9, <1>12, <2>2, <3>1
  <2> QED BY <2>1, <2>2
<1> QED BY <1>1, <1>2, <1>3, <1>4, <1>7, <1>9, <1>10, <1>11, <1>13

LEMMA CommitStep ==
    ASSUME IInv, NEW h \in Handlers, Commit(h)
    PROVE  IInv'
<1> DEFINE c == Request(h)
           content == Content(c, tx[h].cache)
           row == [Begun(c, tx[h].access, "done", tx[h].retries) EXCEPT !.status = "done"]
<1>1. /\ tx[h] # Nothing /\ tx[h] \in Transactions /\ tx[h].at = "commit" /\ Working(h)
      /\ c \in CommandType /\ c \in Commands /\ c.name \in Names
      /\ tx[h].written \in Rows /\ tx[h].written.content = content
      /\ recipe' = [recipe EXCEPT ![c.name] = tx[h].written]
      /\ catalogue' \in Entries
  BY CommitFacts
<1>2. /\ \A s \in Slugs : tx[h].added[s] = Nothing => catalogue'[s] = catalogue[s]
      /\ \A s \in Slugs : catalogue[s] # Nothing => catalogue'[s] = catalogue[s]
      /\ \A s \in Mentioned(c) : catalogue'[s] # Nothing
  BY CommitFacts
<1>3. Goes(h, row) /\ kind' = kind /\ access' = access /\ lock' = IF lock = h THEN Nothing ELSE lock
  BY DEF Commit, Ended
<1>4. TypeOK
  BY DEF IInv
<1>5. Fresh \in Entries
  BY DEF Fresh, Entries
<1>6. /\ row \in Transactions /\ row.request = c /\ row.at = "done" /\ row.status = "done"
      /\ row.added = Fresh /\ row.cache = Fresh /\ row.i = 1
  BY <1>1, <1>5 DEF Begun, Transactions, Stages, Statuses
<1> HIDE DEF row
<1>7. /\ tx' \in [Handlers -> Transactions \cup {Nothing}] /\ tx'[h] = row
      /\ \A g \in Handlers \ {h} : tx'[g] = tx[g]
  BY <1>3, <1>4, <1>6 DEF TypeOK, Goes
<1>8. /\ recipe' \in [Names -> Rows \cup {Nothing}] /\ recipe'[c.name] = tx[h].written
      /\ \A n \in Names \ {c.name} : recipe'[n] = recipe[n]
      /\ \A n \in Names : recipe[n] # Nothing => recipe'[n] # Nothing
  BY <1>1, <1>4, RowsAssumption DEF TypeOK
<1>9. TypeOK'
  <2>1. kind' \in Kinds /\ access' \in 0..MaxAccess /\ lock' \in Handlers \cup {Nothing}
    BY <1>3, <1>4 DEF TypeOK
  <2> QED BY <1>1, <1>7, <1>8, <2>1 DEF TypeOK, Entries, Rows, Transactions
<1>10. Handler(h)'
  <2>1. Request(h)' = c /\ Personal(h)' = Personal(h)
    BY <1>3, <1>6, <1>7 DEF Request, Personal
  <2> QED BY <1>1, <1>6, <1>7, <2>1 DEF Handler, Active, Resting, Answered, Fresh
<1>11. ASSUME NEW g \in Handlers \ {h} PROVE Handler(g)'
  <2>1. Handler(g) /\ Apart(g, h) /\ tx'[g] = tx[g] /\ (lock = g => lock' = g)
    BY <1>3, <1>7 DEF IInv
  <2>2. Request(g)' = Request(g) /\ Personal(g)' = Personal(g)
    BY <1>3, <2>1 DEF Request, Personal
  <2>3. ASSUME tx[g] # Nothing, tx[g].at \in Active PROVE Working(g)'
    <3>1. Working(g)
      BY <2>1, <2>3 DEF Handler
    <3>2. tx[g] \in Transactions /\ Request(g).name \in Names
      BY <1>4, <2>3 DEF TypeOK, Transactions, Request, CommandType
    <3>3. MapHolds(g)'
      <4>1. \A s \in Slugs : tx[g].added[s] # Nothing => tx[h].added[s] = Nothing
        BY <1>1, <2>1, <2>3 DEF Apart
      <4> QED BY <1>2, <2>1, <2>2, <3>1, <4>1 DEF Working, MapHolds
    <3>4. Progress(g)'
      BY <2>1, <2>2, <3>1 DEF Working, Progress
    <3>5. ~Personal(g) => Personal(h)
      BY <1>1, <3>1 DEF Working, RowHolds
    <3>6. ~Personal(g) => kind # "SHARED" /\ c.kind = "create"
      BY <3>5 DEF Personal, Request
    <3>7. \/ c.kind = "create" /\ recipe[c.name] = Nothing
          \/ c.kind = "replace" /\ recipe[c.name] # Nothing
      BY <1>1 DEF Working, WrittenHolds, RowHolds
    <3>8. Request(g).kind = "replace" => ~Personal(g) /\ Request(g).name # c.name
      <4>1. Request(g).kind = "replace" => ~Personal(g)
        BY DEF Personal, Request
      <4> QED BY <3>1, <3>6, <3>7, <4>1 DEF Working, RowHolds
    <3>9. tx[g].at = "commit" /\ Request(g).kind = "create" => Request(g).name # c.name
      <4>1. tx[g].at = "commit" /\ Request(g).kind = "create" => recipe[Request(g).name] = Nothing
        BY <3>1 DEF Working, WrittenHolds
      <4> QED BY <1>1, <2>1, <2>3, <3>7, <4>1 DEF Apart
    <3>10. kind = "SHARED" => ~Personal(g)
      BY DEF Personal
    <3>11. RowHolds(g)'
      BY <1>3, <1>8, <2>1, <2>2, <3>1, <3>2, <3>6, <3>8, <3>10 DEF Working, RowHolds
    <3>12. WrittenHolds(g)'
      BY <1>8, <2>1, <2>2, <3>1, <3>2, <3>8, <3>9 DEF Working, WrittenHolds
    <3> QED BY <2>2, <3>1, <3>3, <3>4, <3>11, <3>12 DEF Working
  <2>4. Resting(g) => Resting(g)'
    BY <2>1 DEF Resting, Fresh
  <2>5. tx[g] # Nothing /\ Answered(g) => Answered(g)'
    <3>1. tx[g] # Nothing => Request(g).name \in Names
      BY <1>4 DEF TypeOK, Transactions, Request, CommandType
    <3> QED BY <1>3, <1>8, <2>1, <2>2, <3>1 DEF Answered
  <2> QED BY <2>1, <2>2, <2>3, <2>4, <2>5 DEF Handler
<1>12. ASSUME NEW f \in Handlers, NEW g \in Handlers, f # g PROVE Apart(f, g)'
  <2>1. CASE f # h /\ g # h
    BY <1>7, <1>12, <2>1 DEF IInv, Apart, Request
  <2>2. CASE f = h \/ g = h
    BY <1>6, <1>7, <2>2 DEF Apart, Fresh
  <2> QED BY <2>1, <2>2
<1>13. ASSUME NEW n \in Names, recipe'[n] # Nothing PROVE Catalogued(recipe[n].content)'
  <2>1. CASE n # c.name
    <3>1. recipe'[n] = recipe[n] /\ recipe[n] \in Rows /\ Catalogued(recipe[n].content)
      BY <1>4, <1>8, <1>13, <2>1 DEF IInv, TypeOK
    <3>2. recipe[n].content \in ContentType
      BY <3>1 DEF Rows
    <3>3. /\ \A j \in 1..Len(recipe[n].content.lines) : recipe[n].content.lines[j].slug \in Slugs
          /\ \A j \in 1..Len(recipe[n].content.garnishes) : recipe[n].content.garnishes[j].slug \in Slugs
      <4>1. recipe[n].content.lines \in Seq(StoredType) /\ recipe[n].content.garnishes \in Seq(GarnishType)
        BY <3>2 DEF ContentType
      <4>2. /\ \A j \in 1..Len(recipe[n].content.lines) : recipe[n].content.lines[j] \in StoredType
            /\ \A j \in 1..Len(recipe[n].content.garnishes) :
                  recipe[n].content.garnishes[j] \in GarnishType
        BY <4>1, ElementOfSeq
      <4> QED BY <4>2 DEF StoredType, GarnishType
    <3> QED BY <1>2, <3>1, <3>3 DEF Catalogued
  <2>2. CASE n = c.name
    <3>1. recipe'[n].content = content
      BY <1>1, <1>8, <2>2
    <3>2. /\ content.garnishes = c.garnishes /\ Len(content.lines) = Len(c.lines)
          /\ \A j \in 1..Len(c.lines) : content.lines[j].slug = c.lines[j].slug
      BY <1>1, ContentFacts
    <3>3. /\ \A j \in 1..Len(c.lines) : c.lines[j].slug \in Mentioned(c)
          /\ \A j \in 1..Len(c.garnishes) : c.garnishes[j].slug \in Mentioned(c)
      BY <1>1, MentionedFacts
    <3> HIDE DEF content
    <3> QED BY <1>2, <3>1, <3>2, <3>3 DEF Catalogued
  <2> QED BY <2>1, <2>2
<1> QED BY <1>9, <1>10, <1>11, <1>12, <1>13 DEF IInv

----------------------------------------------------------------------------
LEMMA InitHolds == Init => IInv
<1> SUFFICES ASSUME Init PROVE IInv
  OBVIOUS
<1>1. Fresh \in Entries
  BY DEF Fresh, Entries
<1>2. TypeOK
  BY <1>1, RecipesAssumption DEF Init, TypeOK, Fresh
<1> QED BY <1>2 DEF Init, IInv, Handler, Apart

LEMMA NextPreserves == IInv /\ [RecipesNext]_recipeVars => IInv'
<1> SUFFICES ASSUME IInv, [RecipesNext]_recipeVars PROVE IInv'
  OBVIOUS
<1>1. CASE UNCHANGED recipeVars
  <2>1. UNCHANGED <<kind, access, catalogue, recipe, lock, tx>>
    BY <1>1 DEF recipeVars
  <2>2. TypeOK'
    BY <2>1 DEF IInv, TypeOK
  <2>3. \A h \in Handlers : Handler(h)'
    BY <2>1, OthersKeep DEF IInv
  <2>4. \A f, g \in Handlers : f # g => Apart(f, g)'
    BY <2>1 DEF IInv, Apart, Request
  <2>5. \A n \in Names : recipe'[n] # Nothing => Catalogued(recipe[n].content)'
    BY <2>1 DEF IInv, Catalogued
  <2> QED BY <2>2, <2>3, <2>4, <2>5 DEF IInv
<1>2. CASE AccessMoves
  BY <1>2, AccessStep
<1>3. ASSUME NEW h \in Handlers, Sends(h) PROVE IInv'
  BY <1>3, SendStep
<1>4. ASSUME NEW h \in Handlers, Interrupted(h) PROVE IInv'
  <2>1. tx[h] # Nothing /\ Refuse(h, "500")
    BY <1>4 DEF Interrupted
  <2> QED BY <2>1, RefuseStep DEF Statuses
<1>5. ASSUME NEW h \in Handlers, Statement(h) PROVE IInv'
  <2>1. CASE Precheck(h)
    BY <2>1, PrecheckStep
  <2>2. CASE LockWorkspace(h)
    BY <2>2, LockStep
  <2>3. CASE Check(h)
    BY <2>3, CheckStep
  <2>4. CASE Select(h)
    BY <2>4, SelectStep
  <2>5. CASE Insert(h)
    BY <2>5, InsertStep
  <2>6. CASE IngredientTaken(h)
    BY <2>6, IngredientTakenStep
  <2>7. CASE CheckMain(h)
    BY <2>7, CheckMainStep
  <2>8. CASE Write(h)
    BY <2>8, WriteStep
  <2>9. CASE Commit(h)
    BY <2>9, CommitStep
  <2>10. CASE DeadlockVictim(h)
    <3>1. tx[h] # Nothing /\ Refuse(h, "500")
      BY <2>10 DEF DeadlockVictim
    <3> QED BY <3>1, RefuseStep DEF Statuses
  <2>11. CASE Reply(h)
    BY <2>11, ReplyStep
  <2> QED BY <1>5, <2>1, <2>2, <2>3, <2>4, <2>5, <2>6, <2>7, <2>8, <2>9, <2>10, <2>11 DEF Statement
<1> QED BY <1>1, <1>2, <1>3, <1>4, <1>5 DEF RecipesNext

\* What the open transactions remember, have inserted and are about to commit
\* stays true of the committed rows, whoever commits, fails or starts over in
\* between.
THEOREM RecipesInvariant == RecipesSpec => []IInv
<1>1. Init => IInv
  BY InitHolds
<1>2. IInv /\ [RecipesNext]_recipeVars => IInv'
  BY NextPreserves
<1> QED BY <1>1, <1>2, PTL DEF RecipesSpec

\* Rows and transactions have their types: no retry beyond the bound, no
\* version beyond the last one.
THEOREM RecipesTypes == RecipesSpec => []TypeOK
<1>1. IInv => TypeOK
  BY DEF IInv
<1> QED BY <1>1, RecipesInvariant, PTL

\* A creation is refused for its name only when a recipe has this name, and in
\* a Bar no unique index ever answers.
THEOREM ConflictsAreRealAlways == RecipesSpec => []ConflictsAreReal
<1>1. IInv => ConflictsAreReal
  BY DEF IInv, Handler, Answered, ConflictsAreReal, At
<1> QED BY <1>1, RecipesInvariant, PTL

----------------------------------------------------------------------------
\* A commit leaves the catalogue its command would leave if it ran alone.
LEMMA CommitEnriches ==
    ASSUME IInv, NEW h \in Handlers, Commit(h)
    PROVE  catalogue' = Book!Enriched(Request(h))
<1> DEFINE c == Request(h)
<1>1. c \in CommandType /\ catalogue' \in Entries
  BY CommitFacts
<1>2. Mentioned(c) = {Mentions(c)[j] : j \in DOMAIN Mentions(c)}
  BY <1>1, MentionedFacts DEF Mentioned
<1>3. ASSUME NEW s \in Slugs
      PROVE  catalogue'[s] = IF catalogue[s] = Nothing /\ s \in Mentioned(c)
                             THEN AskedDefault(c, s) ELSE catalogue[s]
  <2>1. CASE catalogue[s] # Nothing
    BY <2>1, CommitFacts
  <2>2. CASE tx[h].added[s] # Nothing
    BY <2>2, CommitFacts
  <2>3. CASE catalogue[s] = Nothing /\ tx[h].added[s] = Nothing
    <3>1. catalogue'[s] = Nothing /\ s \notin Mentioned(c)
      BY <2>3, CommitFacts
    <3> QED BY <2>3, <3>1
  <2> QED BY <2>1, <2>2, <2>3
<1>4. Book!Enriched(c) = [s \in Slugs |-> IF catalogue[s] = Nothing /\ s \in Mentioned(c)
                                         THEN AskedDefault(c, s) ELSE catalogue[s]]
  BY <1>2 DEF Book!Enriched, Book!Mentions, Mentions, Book!AskedDefault, AskedDefault,
              Book!NoDegree, NoDegree
<1> QED BY <1>1, <1>3, <1>4 DEF Entries

\* A commit is a creation, a replacement, or, for a recipe that already had
\* this content, nothing.
LEMMA CommitImplements ==
    ASSUME IInv, NEW h \in Handlers, Commit(h)
    PROVE  [Book!BookNext]_(Book!bookVars)
<1> DEFINE c == Request(h)
           e == Book!Enriched(c)
           content == Content(c, tx[h].cache)
<1>1. /\ tx[h] # Nothing /\ tx[h] \in Transactions /\ tx[h].at = "commit" /\ Working(h)
      /\ c \in CommandType /\ c \in Commands /\ c.name \in Names
      /\ recipe' = [recipe EXCEPT ![c.name] = tx[h].written]
      /\ catalogue' \in Entries
      /\ \A s \in Mentioned(c) : catalogue'[s] = tx[h].cache[s]
  BY CommitFacts
<1>2. catalogue' = e
  BY CommitEnriches
<1> HIDE DEF e
<1>3. content = Content(c, e)
  BY <1>1, <1>2, SameContent
<1>4. MainIsAlcoholic(c, e)
  <2>1. MainIsAlcoholic(c, tx[h].cache)
    <3>1. Len(Mentions(c)) = Len(c.lines) + Len(c.garnishes) /\ Len(c.lines) \in Nat
          /\ Len(c.garnishes) \in Nat
      BY <1>1, MentionsFacts
    <3>2. tx[h].i = Len(Mentions(c)) + 1
      BY <1>1 DEF Working, Progress
    <3> DEFINE p == Len(c.lines)
               q == Len(c.garnishes)
               all == Len(Mentions(c))
    <3>3. p \in Nat /\ q \in Nat /\ all = p + q /\ tx[h].i = all + 1
      BY <3>1, <3>2
    <3> HIDE DEF p, q, all
    <3>4. tx[h].i > p
      BY <3>3
    <3> QED BY <1>1, <3>4 DEF Working, Progress, p
  <2>2. \A j \in 1..Len(c.lines) : tx[h].cache[c.lines[j].slug] = e[c.lines[j].slug]
    BY <1>1, <1>2, MentionedFacts
  <2> QED BY <1>1, <2>1, <2>2, SameMain
<1>5. /\ Book!Valid(c) = Valid(c) /\ Book!MainIsAlcoholic(c, e) = MainIsAlcoholic(c, e)
      /\ Book!Content(c, e) = Content(c, e)
  <2>1. Book!Valid(c) = Valid(c)
    BY DEF Book!Valid, Valid, Book!ValidLines, ValidLines, Book!ValidGarnishes, ValidGarnishes,
           Book!ValidModes, ValidModes, Book!ValidMain, ValidMain, Book!SlugsOf, SlugsOf,
           Book!NoDegree, NoDegree
  <2>2. Book!StoredLines(c, e) = StoredLines(c, e)
    BY DEF Book!StoredLines, StoredLines, Book!StoredLine, StoredLine,
           Book!ResolveRecipeAbvOverride, ResolveRecipeAbvOverride, Book!NoDegree, NoDegree
  <2> QED BY <2>1, <2>2 DEF Book!MainIsAlcoholic, MainIsAlcoholic, Book!EffectiveDegree,
             EffectiveDegree, Book!Content, Content, Book!NoDegree, NoDegree
<1>6. Valid(c)
  BY <1>1 DEF Working
<1>7. ASSUME NEW version, tx[h].written = [version |-> version, content |-> content]
      PROVE  Book!Store(c, version)
  BY <1>1, <1>2, <1>3, <1>4, <1>5, <1>6, <1>7 DEF Book!Store, e
<1>8. CASE /\ c.kind = "create" /\ recipe[c.name] = Nothing
           /\ tx[h].written = [version |-> 0, content |-> content]
  <2>1. Book!CreateWhole(c)
    BY <1>7, <1>8 DEF Book!CreateWhole
  <2> QED BY <1>1, <2>1 DEF Book!BookNext
<1>9. CASE /\ c.kind = "replace" /\ c.version < MaxVersion
           /\ tx[h].written = [version |-> c.version + 1, content |-> content]
  <2>1. recipe[c.name] # Nothing /\ recipe[c.name].version = c.version
    BY <1>1, <1>9 DEF Working, RowHolds
  <2>2. Book!ReplaceWhole(c)
    BY <1>7, <1>9, <2>1 DEF Book!ReplaceWhole
  <2> QED BY <1>1, <2>2 DEF Book!BookNext
<1>10. CASE /\ c.kind = "replace" /\ recipe[c.name].content = content
            /\ tx[h].written = recipe[c.name]
  <2>1. recipe \in [Names -> Rows \cup {Nothing}] /\ catalogue \in Entries
    BY DEF IInv, TypeOK
  <2>2. recipe' = recipe
    BY <1>1, <1>10, <2>1
  <2>3. Catalogued(content)
    <3>1. recipe[c.name] # Nothing
      BY <1>1, <1>10 DEF Working, RowHolds
    <3> QED BY <1>1, <1>10, <3>1 DEF IInv
  <2>4. ASSUME NEW s \in Mentioned(c) PROVE catalogue[s] # Nothing
    <3>1. /\ content.garnishes = c.garnishes /\ Len(content.lines) = Len(c.lines)
          /\ \A j \in 1..Len(c.lines) : content.lines[j].slug = c.lines[j].slug
      BY <1>1, ContentFacts
    <3>2. \/ \E j \in 1..Len(c.lines) : c.lines[j].slug = s
          \/ \E j \in 1..Len(c.garnishes) : c.garnishes[j].slug = s
      BY <1>1, MentionedComesFrom
    <3> HIDE DEF content
    <3> QED BY <2>3, <3>1, <3>2 DEF Catalogued
  <2>5. \A s \in Slugs : catalogue'[s] = catalogue[s]
    <3>1. \A s \in Slugs : tx[h].added[s] = Nothing
      BY <2>4, CommitFacts
    <3> QED BY <3>1, CommitFacts
  <2>6. catalogue' = catalogue
    BY <1>1, <2>1, <2>5 DEF Entries
  <2> QED BY <2>2, <2>6 DEF Book!bookVars
<1> QED BY <1>1, <1>8, <1>9, <1>10 DEF Working, WrittenHolds

\* Only a commit changes the rows that others see.
LEMMA StepImplements ==
    IInv /\ [RecipesNext]_recipeVars => [Book!BookNext]_(Book!bookVars)
<1> SUFFICES ASSUME IInv, [RecipesNext]_recipeVars PROVE [Book!BookNext]_(Book!bookVars)
  OBVIOUS
<1>1. ASSUME NEW h \in Handlers, Commit(h) PROVE [Book!BookNext]_(Book!bookVars)
  BY <1>1, CommitImplements
<1>2. CASE UNCHANGED rowVars
  BY <1>2 DEF rowVars, Book!bookVars
<1>3. \/ UNCHANGED rowVars
      \/ \E h \in Handlers : Commit(h)
  <2>1. ASSUME NEW h \in Handlers, Sends(h) PROVE UNCHANGED rowVars
    BY <2>1 DEF Sends, Send
  <2>2. ASSUME NEW h \in Handlers, Interrupted(h) PROVE UNCHANGED rowVars
    BY <2>2 DEF Interrupted, Refuse
  <2>3. ASSUME NEW h \in Handlers, Statement(h), ~Commit(h) PROVE UNCHANGED rowVars
    BY <2>3, Zenon DEF Statement, Precheck, LockWorkspace, Check, Select, Insert, IngredientTaken,
       CheckMain, Write, DeadlockVictim, Reply, Refuse
  <2> QED BY <2>1, <2>2, <2>3 DEF RecipesNext, AccessMoves, recipeVars, rowVars
<1> QED BY <1>1, <1>2, <1>3

\* Statement by statement, raced, interrupted and retried, the handlers
\* implement the book in which every command runs alone: a recipe appears
\* whole with the entries it adds, and no entry of the catalogue changes.
THEOREM RecipesImplementBook == RecipesSpec => ImplementsRecipeBook
<1>1. Init => Book!BookInit
  BY DEF Init, Fresh, Book!BookInit
<1>2. IInv /\ [RecipesNext]_recipeVars => [Book!BookNext]_(Book!bookVars)
  BY StepImplements
<1> QED BY <1>1, <1>2, RecipesInvariant, PTL DEF RecipesSpec, Book!BookSpec, ImplementsRecipeBook

----------------------------------------------------------------------------
(* Batch plans: what requests, answers and pages are made of.              *)

Projections == [id : Keys, version : 0..MaxVersion, recipe : Names, from : 0..MaxVersion,
                snapshot : ContentType, params : Parameters, access : 0..MaxAccess]
Loadings    == [recipe : Names, from : 0..MaxVersion, snapshot : ContentType, access : 0..MaxAccess]

PageTypeOK ==
    /\ DOMAIN page = DOMAIN Idle
    /\ page.active \in Projections \cup {Nothing} /\ page.inspected \in Projections \cup {Nothing}
    /\ page.source \in Loadings \cup Projections \cup {Nothing}
    /\ page.access \in 0..MaxAccess /\ page.confirmed \in 0..MaxAccess
    /\ page.typed \in Parameters \cup {Nothing}

\* A recipe, and a version of it that has existed.
SourceOK(s) == s.recipe \in Names /\ recipe[s.recipe] # Nothing /\ s.from <= recipe[s.recipe].version

\* What a page knows of a plan: the content never changes.
KnownPlan(p) ==
    /\ p.id \in Keys /\ plan[p.id] # Nothing /\ p.snapshot = plan[p.id].snapshot
    /\ SourceOK(p)

\* Quantities were derived from the content and the parameters a body names.
ShownFor(seen, body, content) ==
    /\ seen \in Previews /\ seen.params = body.params
    /\ body.op = "create" /\ recipe[body.recipe].version = body.from =>
         seen.snapshot = recipe[body.recipe].content
    /\ body.op = "update" => seen.snapshot = content

BodyOK(body) ==
    /\ body \in CreateBodies \cup UpdateBodies
    /\ body.op = "create" => SourceOK(body)

\* A write carries what its author was shown.
WriteOK(q) ==
    /\ q \in Writes /\ BodyOK(q.body)
    /\ q.body.op = "update" => plan[q.key] # Nothing
    /\ ShownFor(q.shown, q.body, plan[q.key].snapshot)

RequestOK(q) ==
    \/ q.ask = "content" /\ q.recipe \in Names /\ recipe[q.recipe] # Nothing
    \/ /\ q.ask = "preview" /\ q.key \in Keys /\ BodyOK(q.body)
       /\ q.body.op = "update" => page.active # Nothing /\ page.active.id = q.key
    \/ q.ask = "write" /\ WriteOK(q) /\ q = page.intent
    \/ q.ask \in {"detail", "receipt", "verify", "inspect"} /\ q.key \in Keys

AnswerOK(q, value) ==
    CASE q.ask = "content" -> value \in Loadings /\ SourceOK(value)
      [] q.ask = "preview" -> ShownFor(value, q.body, plan[q.key].snapshot)
      [] q.ask = "verify"  -> value.access \in 0..MaxAccess
      [] OTHER             -> value \in Projections /\ KnownPlan(value)

CallOK ==
    call # Nothing =>
        /\ call = [request |-> call.request, reply |-> call.reply]
        /\ RequestOK(call.request)
        /\ call.reply # Nothing /\ call.reply.status = "200" => AnswerOK(call.request, call.reply.value)

PageOK ==
    /\ page.active # Nothing => KnownPlan(page.active)
    /\ page.inspected # Nothing => KnownPlan(page.inspected)
    /\ page.source # Nothing => SourceOK(page.source)
    /\ page.preview # Nothing /\ page.signature # Nothing =>
         /\ BodyOK(page.signature)
         /\ page.signature.op = "update" => page.active # Nothing
         /\ ShownFor(page.preview, page.signature, plan[page.active.id].snapshot)
    /\ page.blocked => WriteOK(page.intent)
    /\ page.intent # Nothing => page.intent.key \in Keys

RowOK(row) ==
    row # Nothing =>
        /\ SourceOK(row)
        /\ row.from = recipe[row.recipe].version => row.snapshot = recipe[row.recipe].content
        /\ [snapshot |-> row.snapshot, params |-> row.params] = row.saw
        /\ Calculates(row.snapshot, row.params)

\* Before the page opens there is no plan; from then on no handler is at work.
ClosedOrAlone ==
    IF Opened THEN \A h \in Handlers : tx[h] = Nothing
    ELSE plan = [k \in Keys |-> Nothing] /\ page = Closed /\ call = Nothing /\ late = {}

BatchInv ==
    /\ IInv
    /\ ClosedOrAlone
    /\ plan \in [Keys -> PlanRows \cup {Nothing}] /\ PageTypeOK
    /\ \A k \in Keys : RowOK(plan[k])
    /\ PageOK /\ CallOK
    /\ \A q \in late : WriteOK(q)

----------------------------------------------------------------------------
\* No recipe goes away, and its content changes with its version only.
Grows ==
    \A n \in Names : recipe[n] # Nothing =>
        /\ recipe'[n] # Nothing /\ recipe[n].version <= recipe'[n].version
        /\ recipe'[n].version = recipe[n].version => recipe'[n] = recipe[n]

\* No plan goes away, and its content never changes.
PlansGrow ==
    \A k \in Keys : plan[k] # Nothing => plan'[k] # Nothing /\ plan'[k].snapshot = plan[k].snapshot

LEMMA SourceStays ==
    ASSUME TypeOK, TypeOK', Grows, NEW s, s.from \in 0..MaxVersion, SourceOK(s)
    PROVE  SourceOK(s)'
<1>1. recipe[s.recipe] \in Rows /\ recipe'[s.recipe] \in Rows
  BY DEF SourceOK, Grows, TypeOK
<1>2. recipe[s.recipe].version \in 0..MaxVersion /\ recipe'[s.recipe].version \in 0..MaxVersion
  BY <1>1 DEF Rows
<1> QED BY <1>2, RecipesAssumption DEF SourceOK, Grows

LEMMA RowStays ==
    ASSUME TypeOK, TypeOK', Grows, NEW row \in PlanRows \cup {Nothing}, RowOK(row)
    PROVE  RowOK(row)'
<1> SUFFICES ASSUME row # Nothing PROVE RowOK(row)'
  BY DEF RowOK
<1>1. row.from \in 0..MaxVersion /\ SourceOK(row)
  BY DEF PlanRows, RowOK
<1>2. SourceOK(row)'
  BY <1>1, SourceStays
<1>3. recipe[row.recipe] \in Rows /\ recipe'[row.recipe] \in Rows
  BY <1>1 DEF SourceOK, Grows, TypeOK
<1>4. recipe[row.recipe].version \in 0..MaxVersion /\ recipe'[row.recipe].version \in 0..MaxVersion
  BY <1>3 DEF Rows
<1>5. row.from = recipe'[row.recipe].version => recipe'[row.recipe] = recipe[row.recipe]
  BY <1>1, <1>4, RecipesAssumption DEF SourceOK, Grows
<1> QED BY <1>2, <1>5 DEF RowOK

LEMMA KnownStays ==
    ASSUME TypeOK, TypeOK', Grows, PlansGrow, NEW p \in Projections, KnownPlan(p)
    PROVE  KnownPlan(p)'
<1>1. SourceOK(p)'
  BY SourceStays DEF KnownPlan, Projections
<1> QED BY <1>1 DEF KnownPlan, PlansGrow

LEMMA BodyStays ==
    ASSUME TypeOK, TypeOK', Grows, NEW body, BodyOK(body)
    PROVE  BodyOK(body)'
<1>1. body.op = "create" => body.from \in 0..MaxVersion
  BY DEF BodyOK, CreateBodies, UpdateBodies
<1> QED BY <1>1, SourceStays DEF BodyOK

LEMMA ShownStays ==
    ASSUME TypeOK, TypeOK', Grows, NEW seen, NEW body, NEW content, NEW after, BodyOK(body),
           ShownFor(seen, body, content), body.op = "update" => after = content
    PROVE  ShownFor(seen, body, after)'
<1>1. CASE body.op = "create"
  <2>1. body.from \in 0..MaxVersion /\ SourceOK(body)
    BY <1>1 DEF BodyOK, CreateBodies, UpdateBodies
  <2>2. recipe[body.recipe] \in Rows /\ recipe'[body.recipe] \in Rows
    BY <2>1 DEF SourceOK, Grows, TypeOK
  <2>3. recipe[body.recipe].version \in 0..MaxVersion /\ recipe'[body.recipe].version \in 0..MaxVersion
    BY <2>2 DEF Rows
  <2>4. recipe'[body.recipe].version = body.from => recipe'[body.recipe] = recipe[body.recipe]
    BY <2>1, <2>3, RecipesAssumption DEF SourceOK, Grows
  <2> QED BY <1>1, <2>4 DEF ShownFor
<1>2. CASE body.op # "create"
  BY <1>2 DEF ShownFor
<1> QED BY <1>1, <1>2

LEMMA WriteStays ==
    ASSUME TypeOK, TypeOK', Grows, PlansGrow, NEW q, WriteOK(q)
    PROVE  WriteOK(q)'
<1>1. q \in Writes /\ BodyOK(q.body) /\ q.key \in Keys
  BY DEF WriteOK, Writes
<1>2. BodyOK(q.body)'
  BY <1>1, BodyStays
<1>3. q.body.op = "update" => plan'[q.key] # Nothing /\ plan'[q.key].snapshot = plan[q.key].snapshot
  BY <1>1 DEF WriteOK, PlansGrow
<1>4. ShownFor(q.shown, q.body, plan[q.key].snapshot)'
  BY <1>1, <1>3, ShownStays DEF WriteOK
<1> QED BY <1>1, <1>2, <1>3, <1>4 DEF WriteOK

LEMMA RequestStays ==
    ASSUME TypeOK, TypeOK', Grows, PlansGrow, page' = page, NEW q, RequestOK(q)
    PROVE  RequestOK(q)'
<1>1. CASE q.ask = "content"
  BY <1>1 DEF RequestOK, Grows
<1>2. CASE q.ask = "preview"
  BY <1>2, BodyStays DEF RequestOK
<1>3. CASE q.ask = "write"
  BY <1>3, WriteStays DEF RequestOK
<1>4. CASE q.ask \notin {"content", "preview", "write"}
  BY <1>4 DEF RequestOK
<1> QED BY <1>1, <1>2, <1>3, <1>4

LEMMA AnswerStays ==
    ASSUME TypeOK, TypeOK', Grows, PlansGrow, PageOK, NEW q, RequestOK(q), NEW value, AnswerOK(q, value)
    PROVE  AnswerOK(q, value)'
<1>1. CASE q.ask = "content"
  <2>1. value \in Loadings /\ SourceOK(value) /\ value.from \in 0..MaxVersion
    BY <1>1 DEF AnswerOK, Loadings
  <2> QED BY <1>1, <2>1, SourceStays DEF AnswerOK
<1>2. CASE q.ask = "preview"
  <2>1. BodyOK(q.body) /\ q.key \in Keys
        /\ (q.body.op = "update" => plan'[q.key].snapshot = plan[q.key].snapshot)
    BY <1>2 DEF RequestOK, PageOK, KnownPlan, PlansGrow
  <2>2. ShownFor(value, q.body, plan[q.key].snapshot)
    BY <1>2 DEF AnswerOK
  <2>3. ShownFor(value, q.body, plan[q.key].snapshot)'
    BY <2>1, <2>2, ShownStays
  <2> QED BY <1>2, <2>3 DEF AnswerOK
<1>3. CASE q.ask = "verify"
  BY <1>3 DEF AnswerOK
<1>4. CASE q.ask \notin {"content", "preview", "verify"}
  BY <1>4, KnownStays DEF AnswerOK
<1> QED BY <1>1, <1>2, <1>3, <1>4

LEMMA PageStays ==
    ASSUME TypeOK, TypeOK', Grows, PlansGrow, page' = page, PageTypeOK, PageOK
    PROVE  PageTypeOK' /\ PageOK'
<1>1. PageTypeOK'
  BY DEF PageTypeOK
<1>2. page.active # Nothing => KnownPlan(page.active)'
  BY KnownStays DEF PageTypeOK, PageOK
<1>3. page.inspected # Nothing => KnownPlan(page.inspected)'
  BY KnownStays DEF PageTypeOK, PageOK
<1>4. page.source # Nothing => SourceOK(page.source)'
  <2>1. page.source # Nothing => page.source.from \in 0..MaxVersion /\ SourceOK(page.source)
    BY DEF PageTypeOK, PageOK, Loadings, Projections
  <2> QED BY <2>1, SourceStays
<1>5. ASSUME page.preview # Nothing, page.signature # Nothing
      PROVE  /\ BodyOK(page.signature)' /\ ShownFor(page.preview, page.signature, plan[page.active.id].snapshot)'
             /\ page.signature.op = "update" => page.active # Nothing
  <2>1. /\ BodyOK(page.signature) /\ (page.signature.op = "update" => page.active # Nothing)
        /\ ShownFor(page.preview, page.signature, plan[page.active.id].snapshot)
    BY <1>5 DEF PageOK
  <2>2. page.signature.op = "update" => plan'[page.active.id].snapshot = plan[page.active.id].snapshot
    BY <2>1 DEF PageOK, KnownPlan, PlansGrow
  <2>3. BodyOK(page.signature)'
    BY <2>1, BodyStays
  <2> QED BY <2>1, <2>2, <2>3, ShownStays
<1>6. page.blocked => WriteOK(page.intent)'
  BY WriteStays DEF PageOK
<1> QED BY <1>1, <1>2, <1>3, <1>4, <1>5, <1>6 DEF PageOK

LEMMA CallStays ==
    ASSUME TypeOK, TypeOK', Grows, PlansGrow, UNCHANGED <<page, call>>, PageOK, CallOK
    PROVE  CallOK'
<1> SUFFICES ASSUME call # Nothing
             PROVE  /\ RequestOK(call.request)'
                    /\ call.reply # Nothing /\ call.reply.status = "200" =>
                          AnswerOK(call.request, call.reply.value)'
  BY DEF CallOK
<1>1. RequestOK(call.request)
  BY DEF CallOK
<1>2. RequestOK(call.request)'
  BY <1>1, RequestStays
<1>3. ASSUME call.reply # Nothing, call.reply.status = "200"
      PROVE  AnswerOK(call.request, call.reply.value)'
  BY <1>1, <1>3, AnswerStays DEF CallOK
<1> QED BY <1>2, <1>3

\* A command that runs alone, as RecipeBook has it.
LEMMA WholeStep ==
    ASSUME IInv, WholeCommand
    PROVE  /\ Book!BookNext
           /\ UNCHANGED <<kind, access, lock, tx>>
           /\ catalogue' \in Entries
           /\ \A s \in Slugs : catalogue[s] # Nothing => catalogue'[s] = catalogue[s]
           /\ \E n \in Names, row \in Rows :
                 /\ recipe' = [recipe EXCEPT ![n] = row] /\ Catalogued(row.content)'
                 /\ recipe[n] # Nothing => row.version = recipe[n].version + 1
<1>1. PICK c \in Commands : Book!CreateWhole(c) \/ Book!ReplaceWhole(c)
  <2>1. PICK b \in Requests[kind], v \in 0..MaxVersion :
           Book!CreateWhole([b EXCEPT !.version = v]) \/ Book!ReplaceWhole([b EXCEPT !.version = v])
    BY Zenon DEF WholeCommand
  <2>2. [b EXCEPT !.version = v] \in Commands
    BY CommandsAreTyped DEF IInv, TypeOK
  <2> QED BY <2>1, <2>2
<1>2. c \in CommandType /\ c \in Commands /\ c.version \in 0..MaxVersion
  BY CommandsAreTyped
<1>3. PICK after : after = Book!Enriched(c)
  OBVIOUS
<1>4. ASSUME NEW s \in Slugs
      PROVE  /\ after[s] \in Degrees \cup {Nothing} /\ (catalogue[s] # Nothing => after[s] = catalogue[s])
             /\ s \in Mentioned(c) => after[s] # Nothing
  <2>1. catalogue[s] \in Degrees \cup {Nothing}
    BY DEF IInv, TypeOK, Entries
  <2>2. AskedDefault(c, s) \in Degrees /\ AskedDefault(c, s) # Nothing
    BY <1>2, AskedIsDegree, RulesAssumption
  <2>3. s \in Mentioned(c) => s \in {Mentions(c)[i] : i \in DOMAIN Mentions(c)}
    BY <1>2, MentionedFacts DEF Mentioned
  <2>4. after[s] = IF catalogue[s] = Nothing /\ s \in {Mentions(c)[i] : i \in DOMAIN Mentions(c)}
                   THEN AskedDefault(c, s) ELSE catalogue[s]
    BY <1>3 DEF Book!Enriched, Book!Mentions, Mentions, Book!AskedDefault, AskedDefault,
                Book!NoDegree, NoDegree
  <2> QED BY <2>1, <2>2, <2>3, <2>4
<1>5. after \in Entries
  BY <1>3, <1>4 DEF Book!Enriched, Entries
<1>e. Book!Content(c, after) = Content(c, after)
  <2>1. Book!StoredLines(c, after) = StoredLines(c, after)
    BY DEF Book!StoredLines, StoredLines, Book!StoredLine, StoredLine,
           Book!ResolveRecipeAbvOverride, ResolveRecipeAbvOverride, Book!NoDegree, NoDegree
  <2> QED BY <2>1 DEF Book!Content, Content
<1>6. PICK content : content = Content(c, after)
  OBVIOUS
<1>7. content \in ContentType /\ c.name \in Names
  BY <1>2, <1>6, ContentFacts DEF CommandType
<1>8. PICK v \in 0..MaxVersion :
         /\ catalogue' = after
         /\ recipe' = [recipe EXCEPT ![c.name] = [version |-> v, content |-> content]]
         /\ recipe[c.name] # Nothing => v = recipe[c.name].version + 1
  <2>1. CASE Book!CreateWhole(c)
    <3>1. 0 \in 0..MaxVersion /\ recipe[c.name] = Nothing
      BY <2>1, RecipesAssumption DEF Book!CreateWhole
    <3>2. /\ catalogue' = after
          /\ recipe' = [recipe EXCEPT ![c.name] = [version |-> 0, content |-> content]]
      BY <1>3, <1>6, <1>e, <2>1 DEF Book!CreateWhole, Book!Store
    <3> QED BY <3>1, <3>2
  <2>2. CASE Book!ReplaceWhole(c)
    <3>1. c.version + 1 \in 0..MaxVersion
      BY <1>2, <2>2, RecipesAssumption DEF Book!ReplaceWhole
    <3> QED BY <1>3, <1>6, <1>e, <2>2, <3>1 DEF Book!ReplaceWhole, Book!Store
  <2> QED BY <1>1, <2>1, <2>2
<1>9. [version |-> v, content |-> content] \in Rows
  BY <1>7 DEF Rows
<1>10. Catalogued(content)'
  <2>1. /\ content.garnishes = c.garnishes /\ Len(content.lines) = Len(c.lines)
        /\ \A j \in 1..Len(c.lines) : content.lines[j].slug = c.lines[j].slug
    BY <1>2, <1>6, ContentFacts
  <2>2. /\ \A j \in 1..Len(c.lines) : c.lines[j].slug \in Mentioned(c)
        /\ \A j \in 1..Len(c.garnishes) : c.garnishes[j].slug \in Mentioned(c)
        /\ Mentioned(c) \subseteq Slugs
    BY <1>2, MentionedFacts
  <2> QED BY <1>4, <1>8, <2>1, <2>2 DEF Catalogued
<1>11. UNCHANGED <<kind, access, lock, tx>>
  BY DEF WholeCommand
<1>12. Book!BookNext
  BY <1>1 DEF Book!BookNext
<1>13. \A s \in Slugs : catalogue[s] # Nothing => catalogue'[s] = catalogue[s]
  BY <1>4, <1>8
<1> QED BY <1>5, <1>7, <1>8, <1>9, <1>10, <1>11, <1>12, <1>13

LEMMA WholeGrows ==
    ASSUME IInv, WholeCommand, \A h \in Handlers : tx[h] = Nothing
    PROVE  IInv' /\ Grows
<1>1. PICK n \in Names, row \in Rows :
         recipe' = [recipe EXCEPT ![n] = row] /\ Catalogued(row.content)'
         /\ (recipe[n] # Nothing => row.version = recipe[n].version + 1)
  BY WholeStep
<1>2. /\ UNCHANGED <<kind, access, lock, tx>> /\ catalogue' \in Entries
      /\ \A s \in Slugs : catalogue[s] # Nothing => catalogue'[s] = catalogue[s]
  BY WholeStep
<1>3. /\ recipe' \in [Names -> Rows \cup {Nothing}] /\ recipe'[n] = row /\ row # Nothing
      /\ \A m \in Names \ {n} : recipe'[m] = recipe[m]
  BY <1>1, RowsAssumption DEF IInv, TypeOK
<1>4. TypeOK'
  BY <1>2, <1>3 DEF IInv, TypeOK
<1>5. \A h \in Handlers : Handler(h)'
  BY <1>2 DEF Handler
<1>6. \A g, h \in Handlers : g # h => Apart(g, h)'
  BY <1>2 DEF Apart
<1>7. ASSUME NEW m \in Names, recipe'[m] # Nothing PROVE Catalogued(recipe[m].content)'
  <2>1. CASE m = n
    BY <1>1, <1>3, <2>1
  <2>2. CASE m # n
    <3>1. recipe'[m] = recipe[m] /\ recipe[m] \in Rows /\ Catalogued(recipe[m].content)
      BY <1>3, <1>7, <2>2 DEF IInv, TypeOK
    <3>2. /\ \A j \in 1..Len(recipe[m].content.lines) : recipe[m].content.lines[j].slug \in Slugs
          /\ \A j \in 1..Len(recipe[m].content.garnishes) : recipe[m].content.garnishes[j].slug \in Slugs
      <4>1. recipe[m].content.lines \in Seq(StoredType) /\ recipe[m].content.garnishes \in Seq(GarnishType)
        BY <3>1 DEF Rows, ContentType
      <4>2. /\ \A j \in 1..Len(recipe[m].content.lines) : recipe[m].content.lines[j] \in StoredType
            /\ \A j \in 1..Len(recipe[m].content.garnishes) : recipe[m].content.garnishes[j] \in GarnishType
        BY <4>1, ElementOfSeq
      <4> QED BY <4>2 DEF StoredType, GarnishType
    <3> QED BY <1>2, <3>1, <3>2 DEF Catalogued
  <2> QED BY <2>1, <2>2
<1>8. Grows
  <2>1. recipe[n] # Nothing => recipe[n] \in Rows /\ recipe[n].version \in Nat
    BY RecipesAssumption DEF IInv, TypeOK, Rows
  <2>2. ASSUME NEW m \in Names, recipe[m] # Nothing
        PROVE  recipe[m].version \in Nat
    BY <2>2, RecipesAssumption DEF IInv, TypeOK, Rows
  <2>3. ASSUME NEW m \in Names, recipe[m] # Nothing
        PROVE  /\ recipe'[m] # Nothing /\ recipe[m].version <= recipe'[m].version
               /\ recipe'[m].version = recipe[m].version => recipe'[m] = recipe[m]
    BY <1>1, <1>3, <2>2, <2>3
  <2> QED BY <2>3 DEF Grows
<1> QED BY <1>4, <1>5, <1>6, <1>7, <1>8 DEF IInv

\* A step outside the page, that may change recipes or plans.
LEMMA Outside ==
    ASSUME BatchInv, IInv', ClosedOrAlone', Grows, PlansGrow, UNCHANGED <<page, call>>,
           late' \subseteq late, plan' \in [Keys -> PlanRows \cup {Nothing}], \A k \in Keys : RowOK(plan[k])'
    PROVE  BatchInv'
<1>1. TypeOK /\ TypeOK' /\ PageTypeOK /\ PageOK /\ CallOK
  BY DEF BatchInv, IInv
<1>2. PageTypeOK' /\ PageOK' /\ CallOK'
  BY <1>1, PageStays, CallStays
<1>3. \A q \in late' : WriteOK(q)'
  BY <1>1, WriteStays DEF BatchInv
<1> QED BY <1>2, <1>3 DEF BatchInv

LEMMA RecipeStep ==
    ASSUME BatchInv, IInv', Grows, \A h \in Handlers : tx[h] = Nothing, tx' = tx, Opened, UNCHANGED planVars
    PROVE  BatchInv'
<1>1. UNCHANGED <<plan, page, call, late>>
  BY DEF planVars
<1>2. ClosedOrAlone'
  BY <1>1 DEF ClosedOrAlone, Opened
<1>3. PlansGrow
  BY <1>1 DEF PlansGrow
<1>4. \A k \in Keys : RowOK(plan[k])'
  BY <1>1, RowStays DEF BatchInv, IInv
<1>5. plan' \in [Keys -> PlanRows \cup {Nothing}]
  BY <1>1 DEF BatchInv
<1> QED BY <1>1, <1>2, <1>3, <1>4, <1>5, Outside

\* Before the page opens, a behaviour is one of Recipes.
LEMMA ClosedStep ==
    ASSUME BatchInv, ~Opened, [RecipesNext]_recipeVars, UNCHANGED planVars
    PROVE  BatchInv'
<1>1. UNCHANGED <<plan, page, call, late>>
  BY DEF planVars
<1>2. IInv'
  BY NextPreserves DEF BatchInv
<1>3. ClosedOrAlone /\ ClosedOrAlone'
  BY <1>1 DEF BatchInv, ClosedOrAlone, Opened
<1>4. plan = [k \in Keys |-> Nothing] /\ page = Closed /\ call = Nothing /\ late = {}
  BY <1>3 DEF ClosedOrAlone
<1>5. PageOK'
  BY <1>1, <1>4 DEF PageOK, Closed, Idle
<1>6. CallOK' /\ PageTypeOK'
  BY <1>1, <1>4 DEF BatchInv, CallOK, PageTypeOK
<1>7. \A k \in Keys : RowOK(plan[k])'
  BY <1>1, <1>4 DEF RowOK
<1> QED BY <1>1, <1>2, <1>3, <1>4, <1>5, <1>6, <1>7 DEF BatchInv

\* A step of the page that writes no plan.
LEMMA PageAction ==
    ASSUME BatchInv, Opened, UNCHANGED recipeVars, UNCHANGED plan, page'.view # "closed",
           PageTypeOK', PageOK', CallOK',
           \A q \in late' : WriteOK(q)
    PROVE  BatchInv'
<1>1. UNCHANGED <<kind, access, catalogue, recipe, lock, tx>>
  BY DEF recipeVars, rowVars
<1>2. IInv'
  BY NextPreserves DEF BatchInv
<1>3. ClosedOrAlone'
  BY <1>1 DEF BatchInv, ClosedOrAlone, Opened
<1>4. \A q \in late' : WriteOK(q)'
  BY <1>1 DEF WriteOK, BodyOK, SourceOK, ShownFor
<1>5. \A k \in Keys : RowOK(plan[k])'
  BY <1>1 DEF BatchInv, RowOK, SourceOK
<1> QED BY <1>2, <1>3, <1>4, <1>5 DEF BatchInv

LEMMA BodyFacts ==
    ASSUME BatchInv, Body # Nothing
    PROVE  /\ BodyOK(Body)
           /\ Body.op = "update" => page.active # Nothing
<1>1. page.source # Nothing /\ page.typed \in Parameters /\ PageTypeOK /\ PageOK
  BY DEF Body, BatchInv, PageTypeOK
<1>2. CASE page.active # Nothing
  <2>1. Body = [op |-> "update", expects |-> page.active.version, access |-> page.access, params |-> page.typed]
    BY <1>1, <1>2 DEF Body
  <2>2. page.active.version \in 0..MaxVersion
    BY <1>1, <1>2 DEF PageTypeOK, Projections
  <2>3. Body \in UpdateBodies
    BY <1>1, <2>1, <2>2 DEF PageTypeOK, UpdateBodies
  <2> QED BY <1>2, <2>1, <2>3 DEF BodyOK
<1>3. CASE page.active = Nothing
  <2>1. Body = [op |-> "create", recipe |-> page.source.recipe, from |-> page.source.from,
                access |-> page.access, params |-> page.typed]
    BY <1>1, <1>3 DEF Body
  <2>2. page.source.recipe \in Names /\ page.source.from \in 0..MaxVersion /\ SourceOK(page.source)
    BY <1>1 DEF PageTypeOK, PageOK, Loadings, Projections
  <2>3. Body \in CreateBodies
    BY <1>1, <2>1, <2>2 DEF PageTypeOK, CreateBodies
  <2> QED BY <2>1, <2>2, <2>3 DEF BodyOK, SourceOK
<1> QED BY <1>2, <1>3

\* A write leaves a plan as sound as before, and reports what it left.
LEMMA WrittenFacts ==
    ASSUME BatchInv, NEW q, WriteOK(q)
    PROVE  /\ Written(q).row \in PlanRows \cup {Nothing} /\ RowOK(Written(q).row)
           /\ plan[q.key] # Nothing =>
                Written(q).row # Nothing /\ Written(q).row.snapshot = plan[q.key].snapshot
           /\ Written(q).reply.status = "200" =>
                /\ Written(q).row # Nothing
                /\ Written(q).reply.value = Projected(q.key, Written(q).row)
<1> DEFINE prior == plan[q.key]
<1>1. /\ q \in Writes /\ q.key \in Keys /\ q.shown \in Previews /\ q.body.params \in Parameters
      /\ ShownFor(q.shown, q.body, prior.snapshot)
  BY DEF WriteOK, Writes, CreateBodies, UpdateBodies
<1>2. prior \in PlanRows \cup {Nothing} /\ RowOK(prior)
  BY <1>1 DEF BatchInv
<1>3. CASE q.body.op = "create"
  <2> DEFINE row == [recipe |-> q.body.recipe, from |-> recipe[q.body.recipe].version,
                     snapshot |-> recipe[q.body.recipe].content, params |-> q.body.params, version |-> 0,
                     asked |-> q.body, saw |-> q.shown]
  <2>1. Written(q) = Created(q)
    BY <1>3 DEF Written
  <2>2. q.body \in CreateBodies /\ SourceOK(q.body)
    BY <1>1, <1>3 DEF WriteOK, BodyOK, UpdateBodies
  <2>3. recipe[q.body.recipe] \in Rows
    BY <2>2 DEF SourceOK, BatchInv, IInv, TypeOK
  <2>4. row \in PlanRows
    BY <1>1, <2>2, <2>3, RecipesAssumption DEF PlanRows, SourceOK, Rows
  <2>5. SourceIsCurrent(q) /\ Calculates(row.snapshot, q.body.params) => RowOK(row)
    <3>1. recipe[q.body.recipe].version \in 0..MaxVersion
      BY <2>3 DEF Rows
    <3>2. SourceOK(row)
      BY <2>2, <3>1, RecipesAssumption DEF SourceOK
    <3>3. SourceIsCurrent(q) => [snapshot |-> row.snapshot, params |-> row.params] = row.saw
      BY <1>1, <1>3 DEF SourceIsCurrent, ShownFor, Previews
    <3> QED BY <3>2, <3>3 DEF RowOK
  <2>6. row # Nothing
    BY <2>4, PlanRowsAssumption
  <2>7. \/ Created(q) = Kept(row, Given(Projected(q.key, row))) /\ RowOK(row) /\ prior = Nothing
        \/ Created(q) = Kept(prior, Given(Projected(q.key, prior))) /\ prior # Nothing
        \/ \E status \in {"409", "400"} : Created(q) = Kept(prior, Failed(status))
    BY <2>5, Zenon DEF Created
  <2> HIDE DEF row
  <2> QED BY <1>2, <2>1, <2>4, <2>6, <2>7 DEF Kept, Given, Failed
<1>4. CASE q.body.op # "create"
  <2> DEFINE row == IF prior.params = q.body.params THEN prior
                    ELSE [prior EXCEPT !.params = q.body.params, !.version = @ + 1, !.saw = q.shown]
  <2>1. Written(q) = Updated(q)
    BY <1>4 DEF Written
  <2>2. q.body.op = "update" /\ prior # Nothing /\ prior \in PlanRows /\ prior.snapshot = q.shown.snapshot
    BY <1>1, <1>2, <1>4 DEF WriteOK, BodyOK, CreateBodies, UpdateBodies, ShownFor
  <2>3. CASE row = prior
    <3>1. \/ Updated(q) = Kept(prior, Given(Projected(q.key, prior)))
          \/ \E status \in {"409", "400"} : Updated(q) = Kept(prior, Failed(status))
      BY <2>3 DEF Updated
    <3> QED BY <1>2, <2>1, <2>2, <3>1 DEF Kept, Given, Failed
  <2>4. CASE row # prior
    <3>1. row = [prior EXCEPT !.params = q.body.params, !.version = prior.version + 1, !.saw = q.shown]
      BY <2>2, <2>4
    <3>2. /\ row.snapshot = prior.snapshot /\ row.recipe = prior.recipe /\ row.from = prior.from
          /\ row.params = q.body.params /\ row.saw = q.shown
      BY <2>2, <3>1 DEF PlanRows
    <3>3. prior.version # MaxVersion => row \in PlanRows
      <4>1. prior.version # MaxVersion => prior.version + 1 \in 0..MaxVersion
        BY <2>2, RecipesAssumption DEF PlanRows
      <4> QED BY <1>1, <2>2, <3>1, <4>1 DEF PlanRows
    <3>4. Calculates(prior.snapshot, q.body.params) => RowOK(row)
      <4>1. q.shown = [snapshot |-> prior.snapshot, params |-> q.body.params]
        BY <1>1, <2>2 DEF Previews, ShownFor
      <4>2. SourceOK(row)
        BY <1>2, <2>2, <3>2 DEF RowOK, SourceOK
      <4> HIDE DEF row, prior
      <4> QED BY <1>2, <2>2, <3>2, <4>1, <4>2 DEF RowOK
    <3>5. \/ /\ Updated(q) = Kept(row, Given(Projected(q.key, row)))
             /\ Calculates(prior.snapshot, q.body.params) /\ prior.version # MaxVersion
          \/ \E status \in {"409", "400"} : Updated(q) = Kept(prior, Failed(status))
      BY <2>4, Zenon DEF Updated
    <3>6. row \in PlanRows => row # Nothing
      BY PlanRowsAssumption
    <3> HIDE DEF row, prior
    <3> QED BY <1>2, <2>1, <2>2, <3>2, <3>3, <3>4, <3>5, <3>6 DEF Kept, Given, Failed, prior
  <2> QED BY <2>3, <2>4
<1> QED BY <1>3, <1>4

----------------------------------------------------------------------------

\* Steps that only press or type something.
LEMMA BeginStep ==
    ASSUME BatchInv, Opened, UNCHANGED recipeVars,
           Begin \/ Edit \/ Close \/ \E p \in Parameters : Type(p)
    PROVE  BatchInv'
<1>1. PageTypeOK /\ PageOK /\ UNCHANGED <<plan, call, late>> /\ call = Nothing
  BY DEF BatchInv, Begin, Edit, Close, Type, Ready, Busy
<1>2. UNCHANGED recipe
  BY DEF recipeVars, rowVars
<1>3. CallOK' /\ \A q \in late' : WriteOK(q)
  BY <1>1 DEF CallOK, BatchInv
<1>4. CASE Begin
  <2>1. page' = [page EXCEPT !.view = "form", !.active = Nothing, !.source = Nothing,
                             !.preview = Nothing, !.intent = Nothing, !.blocked = FALSE,
                             !.uncertain = FALSE, !.inspected = Nothing]
    BY <1>4 DEF Begin
  <2>2. PageTypeOK' /\ page'.view # "closed"
    BY <1>1, <2>1 DEF PageTypeOK, Idle
  <2>3. PageOK'
    BY <1>1, <2>1 DEF PageTypeOK, PageOK, Idle
  <2> QED BY <1>1, <1>3, <2>2, <2>3, PageAction
<1>5. CASE Edit
  <2>1. page' = [page EXCEPT !.view = "form", !.preview = Nothing, !.signature = Nothing]
    BY <1>5 DEF Edit
  <2>2. PageTypeOK' /\ page'.view # "closed"
    BY <1>1, <2>1 DEF PageTypeOK, Idle
  <2>3. PageOK'
    BY <1>1, <1>2, <2>1 DEF PageTypeOK, PageOK, Idle, KnownPlan, SourceOK, WriteOK, BodyOK, ShownFor
  <2> QED BY <1>1, <1>3, <2>2, <2>3, PageAction
<1>6. CASE Close
  <2>1. page' = [page EXCEPT !.view = "list", !.active = Nothing, !.source = Nothing,
                             !.preview = Nothing, !.intent = Nothing, !.blocked = FALSE, !.uncertain = FALSE]
    BY <1>6 DEF Close
  <2>2. PageTypeOK' /\ page'.view # "closed"
    BY <1>1, <2>1 DEF PageTypeOK, Idle
  <2>3. PageOK'
    BY <1>1, <1>2, <2>1 DEF PageTypeOK, PageOK, Idle, KnownPlan, SourceOK
  <2> QED BY <1>1, <1>3, <2>2, <2>3, PageAction
<1>7. ASSUME NEW p \in Parameters, Type(p) PROVE BatchInv'
  <2>1. page' = [page EXCEPT !.typed = p, !.preview = Nothing, !.signature = Nothing] /\ page.view = "form"
    BY <1>7 DEF Type, Ready
  <2>2. PageTypeOK' /\ page'.view # "closed"
    BY <1>1, <2>1 DEF PageTypeOK, Idle
  <2>3. PageOK'
    BY <1>1, <1>2, <2>1 DEF PageTypeOK, PageOK, Idle, KnownPlan, SourceOK, WriteOK, BodyOK, ShownFor
  <2> QED BY <1>1, <1>3, <2>2, <2>3, PageAction
<1> QED BY <1>4, <1>5, <1>6, <1>7

\* The rows a page knows are those of the server while nothing is written.
LEMMA NothingWritten ==
    ASSUME BatchInv, UNCHANGED recipeVars, UNCHANGED plan
    PROVE  /\ TypeOK /\ TypeOK' /\ Grows /\ PlansGrow
           /\ PageTypeOK /\ PageOK /\ CallOK
<1>1. UNCHANGED <<kind, access, catalogue, recipe, lock, tx>>
  BY DEF recipeVars, rowVars
<1>2. TypeOK /\ TypeOK'
  BY NextPreserves DEF BatchInv, IInv
<1>3. ASSUME NEW n \in Names, recipe[n] # Nothing PROVE recipe[n].version <= recipe[n].version
  BY <1>2, <1>3, RecipesAssumption DEF TypeOK, Rows
<1> QED BY <1>1, <1>2, <1>3 DEF BatchInv, Grows, PlansGrow

\* Steps that ask the server something and leave the page as it is.
LEMMA AskStep ==
    ASSUME BatchInv, Opened, UNCHANGED recipeVars, UNCHANGED <<plan, page, late>>,
           NEW q, RequestOK(q), NEW reply, call' = [request |-> q, reply |-> reply],
           reply = Nothing \/ reply = Failed("409")
    PROVE  BatchInv'
<1>1. /\ TypeOK /\ TypeOK' /\ Grows /\ PlansGrow /\ PageTypeOK /\ PageOK
  BY NothingWritten
<1>2. PageTypeOK' /\ PageOK'
  BY <1>1, PageStays
<1>3. RequestOK(q)'
  BY <1>1, RequestStays
<1>4. CallOK'
  BY <1>3 DEF CallOK, Failed
<1>5. \A d \in late' : WriteOK(d)
  BY DEF BatchInv
<1> QED BY <1>2, <1>4, <1>5, PageAction DEF Opened

LEMMA AskingStep ==
    ASSUME BatchInv, Opened, UNCHANGED recipeVars,
           \/ Calculate \/ Receipt \/ RetrySame \/ Inspect
           \/ \E n \in Names : Choose(n)
           \/ \E k \in Keys : Open(k)
    PROVE  BatchInv'
<1>1. PageTypeOK /\ PageOK
  BY DEF BatchInv
<1>2. CASE Calculate
  <2>1. PICK k \in Target : call' = [request |-> [ask |-> "preview", key |-> k, body |-> Body], reply |-> Nothing]
    BY <1>2 DEF Calculate, Asks
  <2>2. BodyOK(Body) /\ (Body.op = "update" => page.active # Nothing)
    BY <1>2, BodyFacts DEF Calculate
  <2>3. k \in Keys /\ (page.active # Nothing => page.active.id = k)
    BY <1>1, <2>1 DEF Target, UnusedKeys, PageOK, KnownPlan
  <2>4. RequestOK([ask |-> "preview", key |-> k, body |-> Body])
    BY <2>2, <2>3 DEF RequestOK
  <2> QED BY <1>2, <2>1, <2>4, AskStep DEF Calculate
<1>3. CASE Receipt
  <2>1. RequestOK([ask |-> "receipt", key |-> page.intent.key])
    BY <1>1, <1>3 DEF Receipt, RequestOK, PageOK
  <2> QED BY <1>3, <2>1, AskStep DEF Receipt, Asks
<1>4. CASE RetrySame
  <2>1. WriteOK(page.intent) /\ page.intent.ask = "write"
    BY <1>1, <1>4 DEF RetrySame, PageOK, WriteOK, Writes
  <2>2. RequestOK(page.intent)
    BY <2>1 DEF RequestOK
  <2> QED BY <1>4, <2>2, AskStep DEF RetrySame, SendWrite
<1>5. CASE Inspect
  <2>1. RequestOK([ask |-> "verify", key |-> page.active.id])
    BY <1>1, <1>5 DEF Inspect, RequestOK, PageOK, KnownPlan
  <2> QED BY <1>5, <2>1, AskStep DEF Inspect, Asks
<1>6. ASSUME NEW n \in Names, Choose(n) PROVE BatchInv'
  <2>1. RequestOK([ask |-> "content", recipe |-> n])
    BY <1>6 DEF Choose, RequestOK
  <2> QED BY <1>6, <2>1, AskStep DEF Choose, Asks
<1>7. ASSUME NEW k \in Keys, Open(k) PROVE BatchInv'
  <2>1. RequestOK([ask |-> "detail", key |-> k])
    BY <1>7 DEF RequestOK
  <2> QED BY <1>7, <2>1, AskStep DEF Open, Asks
<1> QED BY <1>2, <1>3, <1>4, <1>5, <1>6, <1>7

LEMMA SaveStep ==
    ASSUME BatchInv, Opened, UNCHANGED recipeVars, Save
    PROVE  BatchInv'
<1>1. PageTypeOK /\ PageOK /\ UNCHANGED <<plan, late>>
  BY DEF BatchInv, Save
<1>2. PICK k \in Target :
         LET q == [ask |-> "write", key |-> k, body |-> Body, shown |-> page.preview]
         IN SendWrite(q) /\ page' = [page EXCEPT !.intent = q]
  BY DEF Save
<1>3. PICK q : q = [ask |-> "write", key |-> k, body |-> Body, shown |-> page.preview]
  OBVIOUS
<1>4. /\ page' = [page EXCEPT !.intent = q] /\ ~page.blocked /\ page.view = "form"
      /\ page.preview # Nothing /\ page.signature = Body /\ Body # Nothing
  BY <1>2, <1>3 DEF Save, CanSave, Ready
<1>5. BodyOK(Body) /\ (Body.op = "update" => page.active # Nothing)
  BY <1>4, BodyFacts
<1>6. Nothing # Body /\ ShownFor(page.preview, Body, plan[page.active.id].snapshot)
  BY <1>1, <1>4 DEF PageOK
<1>7. k \in Keys /\ (page.active # Nothing => page.active.id = k)
  BY <1>1, <1>2 DEF Target, UnusedKeys, PageOK, KnownPlan
<1>8. page.active # Nothing => plan[k] # Nothing
  BY <1>1, <1>7 DEF PageOK, KnownPlan
<1>9. ShownFor(page.preview, Body, plan[k].snapshot)
  BY <1>5, <1>6, <1>7 DEF ShownFor
<1>10. q \in Writes
  BY <1>3, <1>5, <1>7, <1>9 DEF Writes, BodyOK, ShownFor
<1>11. WriteOK(q)
  BY <1>3, <1>5, <1>8, <1>9, <1>10 DEF WriteOK
<1>12. PageTypeOK' /\ page'.view # "closed" /\ page'.intent = q
  BY <1>1, <1>4 DEF PageTypeOK, Idle
<1>13. UNCHANGED recipe
  BY DEF recipeVars, rowVars
<1>14. PageOK'
  BY <1>1, <1>4, <1>3, <1>7, <1>12, <1>13 DEF PageTypeOK, PageOK, Idle, KnownPlan, SourceOK, BodyOK, ShownFor
<1>15. CallOK'
  <2>1. RequestOK(q)'
    <3>1. WriteOK(q)'
      BY <1>1, <1>11, <1>13 DEF WriteOK, BodyOK, SourceOK, ShownFor
    <3> QED BY <1>3, <1>12, <3>1 DEF RequestOK
  <2>2. \E reply \in {Nothing, Failed("409")} : call' = [request |-> q, reply |-> reply]
    BY <1>2, <1>3 DEF SendWrite
  <2> QED BY <2>1, <2>2 DEF CallOK, Failed
<1> QED BY <1>1, <1>12, <1>14, <1>15, PageAction DEF BatchInv

\* A plan the server answered is adopted whole.
LEMMA AdoptedFacts ==
    ASSUME BatchInv, Opened, UNCHANGED recipeVars, UNCHANGED plan,
           NEW p \in Projections, KnownPlan(p), page' = Adopted(p)
    PROVE  PageTypeOK' /\ PageOK' /\ page'.view # "closed"
<1>1. PageTypeOK /\ PageOK /\ UNCHANGED recipe
  BY DEF BatchInv, recipeVars, rowVars
<1>2. page' = [page EXCEPT !.view = "plan", !.active = p, !.source = p, !.access = p.access,
                 !.typed = p.params, !.preview = [snapshot |-> p.snapshot, params |-> p.params],
                 !.signature = Nothing, !.intent = Nothing, !.blocked = FALSE, !.uncertain = FALSE, !.missing = FALSE,
                 !.inspected = Nothing]
  BY DEF Adopted
<1>3. PageTypeOK' /\ page'.view # "closed"
  BY <1>1, <1>2 DEF PageTypeOK, Idle, Projections
<1>4. PageOK'
  BY <1>1, <1>2 DEF PageTypeOK, PageOK, Idle, KnownPlan, SourceOK
<1> QED BY <1>3, <1>4

LEMMA ResolveStep ==
    ASSUME BatchInv, Opened, UNCHANGED recipeVars, Resolve
    PROVE  BatchInv'
<1>1. page.inspected \in Projections /\ KnownPlan(page.inspected)
  BY DEF Resolve, BatchInv, PageTypeOK, PageOK
<1>2. UNCHANGED <<plan, call, late>> /\ page' = Adopted(page.inspected) /\ call = Nothing
  BY DEF Resolve, Ready, Busy
<1>3. PageTypeOK' /\ PageOK' /\ page'.view # "closed"
  BY <1>1, <1>2, AdoptedFacts
<1>4. CallOK' /\ \A q \in late' : WriteOK(q)
  BY <1>2 DEF CallOK, BatchInv
<1> QED BY <1>2, <1>3, <1>4, PageAction

\* A write the server serves, now or after the page has given up on it.
LEMMA WriteServed ==
    ASSUME BatchInv, Opened, UNCHANGED recipeVars, NEW q, WriteOK(q),
           plan' = [plan EXCEPT ![q.key] = Written(q).row]
    PROVE  /\ IInv' /\ TypeOK /\ TypeOK' /\ Grows /\ PlansGrow
           /\ plan' \in [Keys -> PlanRows \cup {Nothing}] /\ plan'[q.key] = Written(q).row
           /\ \A k \in Keys : RowOK(plan[k])'
<1>1. UNCHANGED <<kind, access, catalogue, recipe, lock, tx>>
  BY DEF recipeVars, rowVars
<1>2. IInv' /\ TypeOK /\ TypeOK'
  BY NextPreserves DEF BatchInv, IInv
<1>3. Grows
  <2>1. ASSUME NEW n \in Names, recipe[n] # Nothing PROVE recipe[n].version <= recipe[n].version
    BY <1>2, <2>1, RecipesAssumption DEF TypeOK, Rows
  <2> QED BY <1>1, <2>1 DEF Grows
<1>4. q.key \in Keys
  BY DEF WriteOK, Writes
<1>5. /\ Written(q).row \in PlanRows \cup {Nothing} /\ RowOK(Written(q).row)
      /\ plan[q.key] # Nothing =>
           Written(q).row # Nothing /\ Written(q).row.snapshot = plan[q.key].snapshot
  BY WrittenFacts
<1>6. /\ plan' \in [Keys -> PlanRows \cup {Nothing}] /\ plan'[q.key] = Written(q).row
      /\ \A k \in Keys \ {q.key} : plan'[k] = plan[k]
  BY <1>4, <1>5 DEF BatchInv
<1>7. PlansGrow
  BY <1>5, <1>6 DEF PlansGrow
<1>8. ASSUME NEW k \in Keys PROVE RowOK(plan[k])'
  <2>1. PICK row : row = plan'[k] /\ row \in PlanRows \cup {Nothing} /\ RowOK(row)
    BY <1>5, <1>6 DEF BatchInv
  <2> QED BY <1>2, <1>3, <2>1, RowStays
<1> QED BY <1>2, <1>3, <1>6, <1>7, <1>8

LEMMA ServeLateStep ==
    ASSUME BatchInv, Opened, UNCHANGED recipeVars, ServeLate
    PROVE  BatchInv'
<1>1. PICK q \in late : plan' = [plan EXCEPT ![q.key] = Written(q).row] /\ late' = late \ {q}
  BY DEF ServeLate
<1>2. WriteOK(q)
  BY DEF BatchInv
<1>3. UNCHANGED <<page, call>> /\ tx' = tx
  BY DEF ServeLate, recipeVars
<1>4. ClosedOrAlone'
  BY <1>3 DEF BatchInv, ClosedOrAlone, Opened
<1> QED BY <1>1, <1>2, <1>3, <1>4, WriteServed, Outside

LEMMA ColleagueStep ==
    ASSUME BatchInv, Opened, UNCHANGED recipeVars, NEW k \in Keys, NEW p \in Parameters, Colleague(k, p)
    PROVE  BatchInv'
<1>1. PICK q : q = [ask |-> "write", key |-> k,
                    body |-> [op |-> "update", expects |-> plan[k].version, access |-> access, params |-> p],
                    shown |-> [snapshot |-> plan[k].snapshot, params |-> p]]
  OBVIOUS
<1>2. /\ plan[k] # Nothing /\ plan' = [plan EXCEPT ![k] = Updated(q).row]
      /\ UNCHANGED <<page, call, late>> /\ tx' = tx
  BY <1>1 DEF Colleague, recipeVars
<1>3. plan[k] \in PlanRows
  BY <1>2 DEF BatchInv
<1>4. q.body \in UpdateBodies /\ q.shown \in Previews /\ q \in Writes
  BY <1>1, <1>3 DEF UpdateBodies, Previews, Writes, PlanRows, BatchInv, IInv, TypeOK
<1>5. WriteOK(q)
  BY <1>1, <1>2, <1>4 DEF WriteOK, BodyOK, ShownFor
<1>6. plan' = [plan EXCEPT ![q.key] = Written(q).row]
  BY <1>1, <1>2 DEF Written
<1>7. ClosedOrAlone'
  BY <1>2 DEF BatchInv, ClosedOrAlone, Opened
<1> QED BY <1>2, <1>5, <1>6, <1>7, WriteServed, Outside

LEMMA ServeStep ==
    ASSUME BatchInv, Opened, UNCHANGED recipeVars, Serve
    PROVE  BatchInv'
<1>1. PICK q : q = call.request
  OBVIOUS
<1>2. /\ call # Nothing /\ call = [request |-> q, reply |-> call.reply] /\ RequestOK(q) /\ CallOK
      /\ UNCHANGED <<page, late>> /\ tx' = tx
  BY <1>1 DEF Serve, Busy, BatchInv, CallOK, recipeVars
<1>3. ClosedOrAlone'
  BY <1>2 DEF BatchInv, ClosedOrAlone, Opened
<1>4. UNCHANGED <<kind, access, catalogue, recipe, lock, tx>>
  BY DEF recipeVars, rowVars
<1>5. CASE q.ask = "write"
  <2>1. WriteOK(q) /\ q = page.intent
    BY <1>2, <1>5 DEF RequestOK
  <2>2. plan' = [plan EXCEPT ![q.key] = Written(q).row] /\ call' = [call EXCEPT !.reply = Written(q).reply]
    BY <1>1, <1>5 DEF Serve
  <2>3. /\ IInv' /\ TypeOK /\ TypeOK' /\ Grows /\ PlansGrow
        /\ plan' \in [Keys -> PlanRows \cup {Nothing}] /\ plan'[q.key] = Written(q).row
        /\ \A k \in Keys : RowOK(plan[k])'
    BY <2>1, <2>2, WriteServed
  <2>4. PageTypeOK' /\ PageOK'
    BY <1>2, <2>3, PageStays DEF BatchInv
  <2>5. RequestOK(q)' /\ \A d \in late' : WriteOK(d)'
    BY <1>2, <2>3, RequestStays, WriteStays DEF BatchInv
  <2>6. PICK reply : reply = Written(q).reply
    OBVIOUS
  <2>7. ASSUME reply.status = "200" PROVE AnswerOK(q, reply.value)'
    <3>1. PICK row : row = Written(q).row
      OBVIOUS
    <3>2. row \in PlanRows /\ row # Nothing /\ RowOK(row) /\ q.key \in Keys
      BY <2>1, <2>6, <2>7, <3>1, WrittenFacts DEF WriteOK, Writes
    <3>3. reply.value = Projected(q.key, row)
      BY <2>1, <2>6, <2>7, <3>1, WrittenFacts
    <3>4. reply.value \in Projections
      BY <2>3, <3>2, <3>3 DEF Projected, Projections, PlanRows, TypeOK
    <3>5. KnownPlan(reply.value)'
      <4>1. SourceOK(row)
        BY <3>2 DEF RowOK
      <4> QED BY <1>4, <2>3, <3>1, <3>2, <3>3, <4>1 DEF KnownPlan, Projected, SourceOK
    <3> QED BY <1>5, <3>4, <3>5 DEF AnswerOK
  <2>8. call' = [request |-> q, reply |-> reply]
    BY <1>2, <2>2, <2>6
  <2>9. CallOK'
    BY <2>5, <2>7, <2>8 DEF CallOK
  <2> QED BY <1>3, <2>3, <2>4, <2>5, <2>9 DEF BatchInv
<1>6. CASE q.ask # "write"
  <2>1. UNCHANGED plan /\ call' = [request |-> q, reply |-> Read(q)]
    BY <1>1, <1>2, <1>6 DEF Serve
  <2>2. /\ TypeOK /\ TypeOK' /\ Grows /\ PlansGrow /\ PageTypeOK /\ PageOK
    BY <2>1, NothingWritten
  <2>3. PageTypeOK' /\ PageOK' /\ RequestOK(q)'
    BY <1>2, <2>2, PageStays, RequestStays
  <2>4. Read(q).status = "200" => AnswerOK(q, Read(q).value)
    <3>1. CASE q.ask = "content"
      <4>1. q.recipe \in Names /\ recipe[q.recipe] \in Rows
        BY <1>2, <2>2, <3>1 DEF RequestOK, TypeOK
      <4>2. Read(q).value = Loaded(q.recipe)
        BY <3>1 DEF Read, Given
      <4>3. recipe[q.recipe].version <= recipe[q.recipe].version /\ recipe[q.recipe] # Nothing
        BY <1>2, <3>1, <4>1, RecipesAssumption DEF Rows, RequestOK
      <4>4. Loaded(q.recipe) \in Loadings /\ SourceOK(Loaded(q.recipe))
        BY <2>2, <4>1, <4>3 DEF Loaded, Loadings, SourceOK, Rows, TypeOK
      <4> QED BY <3>1, <4>2, <4>4 DEF AnswerOK
    <3>2. CASE q.ask = "preview"
      <4>1. BodyOK(q.body) /\ q.key \in Keys /\ (q.body.op = "update" => plan[q.key] # Nothing)
        BY <1>2, <2>2, <3>2 DEF RequestOK, PageOK, KnownPlan
      <4>2. PICK content : content = IF q.body.op = "create" THEN recipe[q.body.recipe].content
                                     ELSE plan[q.key].snapshot
        OBVIOUS
      <4>3. Read(q).status = "200" => Read(q).value = [snapshot |-> content, params |-> q.body.params]
        BY <3>2, <4>2 DEF Read, Previewed, Given, Failed
      <4>4. content \in ContentType /\ q.body.params \in Parameters
        <5>1. CASE q.body.op = "create"
          <6>1. q.body \in CreateBodies /\ recipe[q.body.recipe] \in Rows
            BY <2>2, <4>1, <5>1 DEF BodyOK, UpdateBodies, SourceOK, TypeOK
          <6> QED BY <4>2, <5>1, <6>1 DEF Rows, CreateBodies
        <5>2. CASE q.body.op # "create"
          <6>1. q.body \in UpdateBodies /\ q.body.op = "update" /\ plan[q.key] \in PlanRows
            BY <4>1, <5>2 DEF BodyOK, CreateBodies, UpdateBodies, BatchInv
          <6> QED BY <4>2, <5>2, <6>1 DEF PlanRows, UpdateBodies
        <5> QED BY <5>1, <5>2
      <4>5. Read(q).status = "200" => ShownFor(Read(q).value, q.body, plan[q.key].snapshot)
        BY <4>2, <4>3, <4>4 DEF ShownFor, Previews
      <4> QED BY <3>2, <4>5 DEF AnswerOK
    <3>3. CASE q.ask = "verify"
      BY <2>2, <3>3 DEF Read, Given, AnswerOK, TypeOK
    <3>4. CASE q.ask \notin {"content", "preview", "verify"}
      <4>1. q.key \in Keys /\ Read(q) = Found(q.key)
        BY <1>2, <1>6, <3>4 DEF RequestOK, Read
      <4>2. CASE plan[q.key] = Nothing
        BY <4>1, <4>2 DEF Found, Failed
      <4>3. CASE plan[q.key] # Nothing
        <5>1. plan[q.key] \in PlanRows /\ SourceOK(plan[q.key])
          BY <4>1, <4>3 DEF BatchInv, RowOK
        <5>2. Read(q).value = Projected(q.key, plan[q.key])
          BY <4>1, <4>3 DEF Found, Given
        <5>3. Projected(q.key, plan[q.key]) \in Projections
          BY <2>2, <4>1, <5>1 DEF Projected, Projections, PlanRows, TypeOK
        <5>4. KnownPlan(Projected(q.key, plan[q.key]))
          BY <4>1, <4>3, <5>1 DEF Projected, KnownPlan, SourceOK
        <5> QED BY <3>4, <5>2, <5>3, <5>4 DEF AnswerOK
      <4> QED BY <4>2, <4>3
    <3> QED BY <3>1, <3>2, <3>3, <3>4
  <2>5. PICK reply : reply = Read(q)
    OBVIOUS
  <2>e. reply.status = "200" => AnswerOK(q, reply.value)'
    BY <1>2, <2>2, <2>4, <2>5, AnswerStays
  <2>6. CallOK'
    BY <2>1, <2>3, <2>5, <2>e DEF CallOK
  <2>7. \A d \in late' : WriteOK(d)
    BY <1>2 DEF BatchInv
  <2>8. page'.view # "closed"
    BY <1>2 DEF Opened
  <2> QED BY <2>1, <2>3, <2>6, <2>7, <2>8, PageAction
<1> QED BY <1>5, <1>6

\* An error blocks a form whose write may have been served, and says so.
LEMMA RefusedFacts ==
    ASSUME BatchInv, Opened, UNCHANGED recipeVars, UNCHANGED plan,
           NEW q, RequestOK(q), NEW status, page' = Refused(q, status)
    PROVE  PageTypeOK' /\ PageOK' /\ page'.view # "closed"
<1>1. PageTypeOK /\ PageOK /\ UNCHANGED recipe
  BY DEF BatchInv, recipeVars, rowVars
<1>2. CASE q.ask = "write"
  <2>1. page' = [page EXCEPT !.blocked = TRUE, !.uncertain = (status = "lost")] /\ WriteOK(page.intent)
    BY <1>2 DEF Refused, RequestOK
  <2>2. PageTypeOK' /\ page'.view # "closed"
    BY <1>1, <2>1 DEF PageTypeOK, Idle, Opened
  <2>3. PageOK'
    BY <1>1, <2>1 DEF PageTypeOK, PageOK, Idle, KnownPlan, SourceOK, WriteOK, BodyOK, ShownFor
  <2> QED BY <2>2, <2>3
<1>3. CASE q.ask = "receipt"
  <2>1. page' = [page EXCEPT !.missing = (status = "404")]
    BY <1>3 DEF Refused
  <2>2. PageTypeOK' /\ page'.view # "closed"
    BY <1>1, <2>1 DEF PageTypeOK, Idle, Opened
  <2>3. PageOK'
    BY <1>1, <2>1 DEF PageTypeOK, PageOK, Idle, KnownPlan, SourceOK, WriteOK, BodyOK, ShownFor
  <2> QED BY <2>2, <2>3
<1>4. CASE q.ask \notin {"write", "receipt"}
  <2>1. page' = page
    BY <1>4 DEF Refused
  <2>2. TypeOK /\ TypeOK' /\ Grows /\ PlansGrow
    BY NothingWritten
  <2> QED BY <1>1, <2>1, <2>2, PageStays DEF Opened
<1> QED BY <1>2, <1>3, <1>4

LEMMA DeliverStep ==
    ASSUME BatchInv, Opened, UNCHANGED recipeVars, Deliver
    PROVE  BatchInv'
<1>1. PICK q, reply : q = call.request /\ reply = call.reply
  OBVIOUS
<1>2. /\ call # Nothing /\ reply # Nothing /\ RequestOK(q) /\ (reply.status = "200" => AnswerOK(q, reply.value))
      /\ UNCHANGED <<plan, late>> /\ PageTypeOK /\ PageOK /\ Opened
      /\ page' = IF reply.status = "200" THEN Shown(q, reply.value) ELSE Refused(q, reply.status)
      /\ call' = IF q.ask = "verify" /\ reply.status = "200"
                 THEN [request |-> [ask |-> "inspect", key |-> q.key], reply |-> Nothing] ELSE Nothing
  BY <1>1 DEF Deliver, Busy, BatchInv, CallOK
<1>3. UNCHANGED recipe
  BY DEF recipeVars, rowVars
<1>4. \A d \in late' : WriteOK(d)
  BY <1>2 DEF BatchInv
<1>5. CallOK'
  <2>1. CASE q.ask = "verify" /\ reply.status = "200"
    BY <1>2, <2>1 DEF CallOK, RequestOK
  <2>2. CASE ~(q.ask = "verify" /\ reply.status = "200")
    BY <1>2, <2>2 DEF CallOK
  <2> QED BY <2>1, <2>2
<1>6. CASE reply.status # "200"
  <2>1. page' = Refused(q, reply.status)
    BY <1>2, <1>6
  <2>2. PageTypeOK' /\ PageOK' /\ page'.view # "closed"
    BY <1>2, <2>1, RefusedFacts
  <2> QED BY <1>2, <1>4, <1>5, <2>2, PageAction
<1>7. CASE reply.status = "200"
  <2>1. page' = Shown(q, reply.value) /\ AnswerOK(q, reply.value)
    BY <1>2, <1>7
  <2>2. CASE q.ask = "content"
    <3>1. page' = [page EXCEPT !.source = reply.value, !.access = reply.value.access,
                               !.typed = Nothing, !.preview = Nothing]
      BY <2>1, <2>2 DEF Shown
    <3>2. reply.value \in Loadings /\ SourceOK(reply.value)
      BY <2>1, <2>2 DEF AnswerOK
    <3>3. PageTypeOK' /\ page'.view # "closed"
      BY <1>2, <3>1, <3>2 DEF PageTypeOK, Idle, Loadings, Opened
    <3>4. PageOK'
      BY <1>2, <1>3, <3>1, <3>2 DEF PageTypeOK, PageOK, Idle, KnownPlan, SourceOK, WriteOK, BodyOK, ShownFor
    <3> QED BY <1>2, <1>4, <1>5, <3>3, <3>4, PageAction
  <2>3. CASE q.ask = "preview"
    <3>1. page' = [page EXCEPT !.preview = reply.value, !.signature = q.body]
      BY <2>1, <2>3 DEF Shown
    <3>2. /\ ShownFor(reply.value, q.body, plan[q.key].snapshot) /\ BodyOK(q.body)
          /\ q.body.op = "update" => page.active # Nothing /\ page.active.id = q.key
      BY <1>2, <2>1, <2>3 DEF AnswerOK, RequestOK
    <3>3. ShownFor(reply.value, q.body, plan[page.active.id].snapshot)
      BY <3>2 DEF ShownFor
    <3>4. PageTypeOK' /\ page'.view # "closed"
      BY <1>2, <3>1 DEF PageTypeOK, Idle, Opened
    <3>5. PageOK'
      <4>2. /\ page'.active = page.active /\ page'.inspected = page.inspected /\ page'.source = page.source
            /\ page'.blocked = page.blocked /\ page'.intent = page.intent
            /\ page'.preview = reply.value /\ page'.signature = q.body
        BY <1>2, <3>1 DEF PageTypeOK, Idle
      <4>k. TypeOK /\ TypeOK' /\ Grows /\ PlansGrow
        BY <1>2, NothingWritten
      <4>3. BodyOK(q.body)'
        BY <3>2, <4>k, BodyStays
      <4>p. PICK content : content = plan[page.active.id].snapshot
        OBVIOUS
      <4>q. ShownFor(reply.value, q.body, content)' /\ plan'[page'.active.id].snapshot = content
        BY <1>2, <3>2, <3>3, <4>k, <4>2, <4>p, ShownStays
      <4>s. ShownFor(reply.value, q.body, plan[page.active.id].snapshot)'
        BY <4>q DEF ShownFor
      <4>4. page.blocked => WriteOK(page.intent)'
        BY <1>2, <4>k, <4>2, WriteStays DEF PageOK
      <4> QED BY <1>2, <1>3, <3>2, <4>2, <4>3, <4>s, <4>4 DEF PageOK, KnownPlan, SourceOK
    <3> QED BY <1>2, <1>4, <1>5, <3>4, <3>5, PageAction
  <2>4. CASE q.ask = "verify"
    <3>1. page' = [page EXCEPT !.confirmed = reply.value.access] /\ reply.value.access \in 0..MaxAccess
      BY <2>1, <2>4 DEF Shown, AnswerOK
    <3>2. PageTypeOK' /\ page'.view # "closed"
      BY <1>2, <3>1 DEF PageTypeOK, Idle, Opened
    <3>3. PageOK'
      BY <1>2, <1>3, <3>1 DEF PageTypeOK, PageOK, Idle, KnownPlan, SourceOK, WriteOK, BodyOK, ShownFor
    <3> QED BY <1>2, <1>4, <1>5, <3>2, <3>3, PageAction
  <2>5. CASE q.ask = "inspect"
    <3>1. page' = [page EXCEPT !.inspected = reply.value]
      BY <2>1, <2>5 DEF Shown
    <3>2. reply.value \in Projections /\ KnownPlan(reply.value)
      BY <2>1, <2>5 DEF AnswerOK
    <3>3. PageTypeOK' /\ page'.view # "closed"
      BY <1>2, <3>1, <3>2 DEF PageTypeOK, Idle, Opened
    <3>4. PageOK'
      BY <1>2, <1>3, <3>1, <3>2 DEF PageTypeOK, PageOK, Idle, KnownPlan, SourceOK, WriteOK, BodyOK, ShownFor
    <3> QED BY <1>2, <1>4, <1>5, <3>3, <3>4, PageAction
  <2>6. CASE q.ask \notin {"content", "preview", "verify", "inspect"}
    <3>1. page' = Adopted(reply.value) /\ reply.value \in Projections /\ KnownPlan(reply.value)
      BY <2>1, <2>6 DEF Shown, AnswerOK
    <3>2. PageTypeOK' /\ PageOK' /\ page'.view # "closed"
      BY <1>2, <3>1, AdoptedFacts
    <3> QED BY <1>2, <1>4, <1>5, <3>2, PageAction
  <2> QED BY <2>2, <2>3, <2>4, <2>5, <2>6
<1> QED BY <1>6, <1>7

\* A request the page gives up on may still be served.
LEMMA GivenUpFacts ==
    ASSUME BatchInv, NEW q \in GivenUp
    PROVE  WriteOK(q)
<1>1. CASE q \in late
  BY <1>1 DEF BatchInv
<1>2. CASE q \notin late
  <2>1. call # Nothing /\ q = call.request /\ q.ask = "write"
    BY <1>2, Zenon DEF GivenUp, Busy
  <2> QED BY <2>1 DEF BatchInv, CallOK, RequestOK
<1> QED BY <1>1, <1>2

LEMMA LostStep ==
    ASSUME BatchInv, Opened, UNCHANGED recipeVars, Lost \/ Clear
    PROVE  BatchInv'
<1>1. UNCHANGED plan /\ call' = Nothing /\ late' = GivenUp /\ PageTypeOK /\ PageOK
  BY DEF Lost, Clear, BatchInv
<1>2. CallOK' /\ \A q \in late' : WriteOK(q)
  BY <1>1, GivenUpFacts DEF CallOK
<1>3. CASE Lost
  <2>1. call # Nothing /\ RequestOK(call.request) /\ page' = Refused(call.request, "lost")
    BY <1>3 DEF Lost, Busy, BatchInv, CallOK
  <2>2. PageTypeOK' /\ PageOK' /\ page'.view # "closed"
    BY <1>1, <2>1, RefusedFacts
  <2> QED BY <1>1, <1>2, <2>2, PageAction
<1>4. CASE Clear
  <2>1. page' = [Idle EXCEPT !.confirmed = access, !.missing = page.missing] /\ access \in 0..MaxAccess
    BY <1>4 DEF Clear, BatchInv, IInv, TypeOK
  <2>2. PageTypeOK' /\ page'.view # "closed"
    BY <1>1, <2>1, RecipesAssumption DEF PageTypeOK, Idle
  <2>3. PageOK'
    BY <2>1 DEF PageOK, Idle
  <2> QED BY <1>1, <1>2, <2>2, <2>3, PageAction
<1> QED BY <1>3, <1>4

LEMMA BatchStarts == BatchInit => BatchInv
<1> SUFFICES ASSUME BatchInit PROVE BatchInv
  OBVIOUS
<1>1. IInv /\ \A h \in Handlers : tx[h] = Nothing
  BY InitHolds DEF BatchInit, Init
<1>2. page \in {Closed, Idle}
  BY DEF BatchInit
<1>3. PageTypeOK
  BY <1>2, RecipesAssumption DEF PageTypeOK, Closed, Idle
<1>4. PageOK
  BY <1>2 DEF PageOK, Closed, Idle
<1>5. ClosedOrAlone
  BY <1>1, <1>2 DEF BatchInit, ClosedOrAlone, Opened, Closed, Idle
<1> QED BY <1>1, <1>3, <1>4, <1>5 DEF BatchInit, BatchInv, RowOK, CallOK

LEMMA BatchStep ==
    BatchInv /\ [BatchNext]_batchVars => BatchInv'
<1> SUFFICES ASSUME BatchInv, [BatchNext]_batchVars PROVE BatchInv'
  OBVIOUS
<1>1. CASE ~Opened /\ RecipesNext /\ UNCHANGED planVars
  BY <1>1, ClosedStep
<1>2. CASE Opened /\ (WholeCommand \/ AccessMoves) /\ UNCHANGED planVars
  <2>1. IInv /\ \A h \in Handlers : tx[h] = Nothing
    BY <1>2 DEF BatchInv, ClosedOrAlone
  <2>2. CASE WholeCommand
    <3>1. IInv' /\ Grows /\ tx' = tx
      BY <2>1, <2>2, WholeGrows, WholeStep
    <3> QED BY <1>2, <2>1, <3>1, RecipeStep
  <2>3. CASE AccessMoves
    <3>1. IInv' /\ tx' = tx /\ recipe' = recipe
      BY <2>1, <2>3, AccessStep DEF AccessMoves, rowVars
    <3>2. Grows
      <4>1. ASSUME NEW n \in Names, recipe[n] # Nothing PROVE recipe[n].version <= recipe[n].version
        BY <2>1, <4>1, RecipesAssumption DEF IInv, TypeOK, Rows
      <4> QED BY <3>1, <4>1 DEF Grows
    <3> QED BY <1>2, <2>1, <3>1, <3>2, RecipeStep
  <2> QED BY <1>2, <2>2, <2>3
<1>3. CASE Opened /\ PageStep /\ UNCHANGED recipeVars
  <2>1. CASE Begin \/ Edit \/ Close \/ \E p \in Parameters : Type(p)
    BY <1>3, <2>1, BeginStep
  <2>2. CASE \/ Calculate \/ Receipt \/ RetrySame \/ Inspect
             \/ \E n \in Names : Choose(n)
             \/ \E k \in Keys : Open(k)
    BY <1>3, <2>2, AskingStep
  <2>3. CASE Save
    BY <1>3, <2>3, SaveStep
  <2>4. CASE Resolve
    BY <1>3, <2>4, ResolveStep
  <2>5. CASE Serve
    BY <1>3, <2>5, ServeStep
  <2>6. CASE ServeLate
    BY <1>3, <2>6, ServeLateStep
  <2>7. CASE Deliver
    BY <1>3, <2>7, DeliverStep
  <2>8. CASE Lost \/ Clear
    BY <1>3, <2>8, LostStep
  <2>9. CASE \E p \in Parameters : \E k \in Keys : Colleague(k, p)
    BY <1>3, <2>9, ColleagueStep
  <2> QED BY <1>3, <2>1, <2>2, <2>3, <2>4, <2>5, <2>6, <2>7, <2>8, <2>9, Zenon DEF PageStep
<1>4. CASE UNCHANGED batchVars
  <2>1. UNCHANGED recipeVars /\ UNCHANGED <<plan, page, call, late>>
    BY <1>4 DEF batchVars, planVars
  <2>2. CASE Opened
    <3>1. TypeOK /\ TypeOK' /\ Grows /\ PlansGrow /\ PageTypeOK /\ PageOK /\ CallOK
      BY <2>1, NothingWritten
    <3>2. PageTypeOK' /\ PageOK' /\ CallOK' /\ \A q \in late' : WriteOK(q)
      BY <2>1, <3>1, PageStays, CallStays DEF BatchInv
    <3> QED BY <2>1, <2>2, <3>2, PageAction DEF Opened
  <2>3. CASE ~Opened
    BY <2>1, <2>3, ClosedStep DEF planVars
  <2> QED BY <2>2, <2>3
<1> QED BY <1>1, <1>2, <1>3, <1>4 DEF BatchNext

----------------------------------------------------------------------------
Positive == Nat \ {0}

\* A set of numbers has a least one: the induction of what follows.
LEMMA LeastNatural ==
    ASSUME NEW T, T \subseteq Nat, T # {}
    PROVE  \E m \in T : \A n \in T : m <= n
<1>1. IsWellFoundedOn(OpToRel(<, Nat), Nat)
  BY NatLessThanWellFounded
<1>2. PICK m \in T : \A n \in T : <<n, m>> \notin OpToRel(<, Nat)
  BY <1>1, WFMin
<1>3. \A n \in T : ~ (n < m)
  BY <1>2 DEF OpToRel
<1> QED BY <1>3

LEMMA Division ==
    ASSUME NEW n \in Int, NEW d \in Positive
    PROVE  /\ n \div d \in Int /\ n % d \in Nat /\ n % d < d
           /\ n = d * (n \div d) + (n % d)
BY DEF Positive

LEMMA Quotient ==
    ASSUME NEW d \in Positive, NEW q \in Int, NEW r \in Nat, r < d
    PROVE  (d * q + r) \div d = q /\ (d * q + r) % d = r
BY DEF Positive

LEMMA Cancel ==
    ASSUME NEW d \in Positive, NEW q \in Int, NEW r \in Int, d * q = d * r
    PROVE  q = r
BY DEF Positive

LEMMA SignOfFactor ==
    ASSUME NEW d \in Positive, NEW z \in Int
    PROVE  /\ d * z >= 0 => z >= 0
           /\ d * z > 0 => z > 0
BY DEF Positive

\* Common divisors of two numbers, and the greatest, in the order of
\* divisibility.
Divides(d, n) == d \in Nat /\ \E k \in Nat : n = d * k
Common(a, b)  == {d \in Nat : Divides(d, a) /\ Divides(d, b)}
Greatest(a, b) == CHOOSE m \in Common(a, b) : \A d \in Common(a, b) : Divides(d, m)

\* The step of Euclid.
LEMMA DivisorOfRemainder ==
    ASSUME NEW a \in Nat, NEW b \in Positive
    PROVE  Common(a, b) = Common(b, a % b)
<1> DEFINE q == a \div b
           r == a % b
<1>1. q \in Nat /\ r \in Nat /\ a = b * q + r
  <2>1. q \in Int /\ r \in Nat /\ r < b /\ a = b * q + r
    BY Division DEF Positive
  <2>2. q >= 0
    BY DEF Positive
  <2> QED BY <2>1, <2>2
<1>2. ASSUME NEW d \in Common(a, b)
      PROVE  d \in Common(b, r)
  <2>1. PICK k \in Nat, m \in Nat : a = d * k /\ b = d * m
    BY DEF Common, Divides
  <2>2. d \in Nat
    BY DEF Common
  <2>3. r = d * (k - m * q)
    <3>1. r = d * k - (d * m) * q
      BY <1>1, <2>1
    <3> HIDE DEF r, q
    <3>2. (d * m) * q = d * (m * q)
      BY <1>1, <2>1, <2>2
    <3>3. d * (k - m * q) = d * k - d * (m * q)
      BY <1>1, <2>1, <2>2
    <3> QED BY <3>1, <3>2, <3>3
  <2>4. CASE d = 0
    <3>1. r = 0
      BY <2>3, <2>4, <1>1, <2>1
    <3> QED BY <2>1, <2>2, <2>4, <3>1 DEF Common, Divides
  <2>5. CASE d # 0
    <3> HIDE DEF r, q
    <3> DEFINE z == k - m * q
    <3>1. z \in Int /\ r = d * z
      BY <1>1, <2>1, <2>3
    <3> HIDE DEF z
    <3>2. z >= 0
      BY <3>1, <1>1, <2>2, <2>5, SignOfFactor DEF Positive
    <3> QED BY <2>1, <2>2, <3>1, <3>2 DEF Common, Divides
  <2> QED BY <2>4, <2>5
<1>3. ASSUME NEW d \in Common(b, r)
      PROVE  d \in Common(a, b)
  <2>1. PICK k \in Nat, m \in Nat : r = d * k /\ b = d * m
    BY DEF Common, Divides
  <2>2. d \in Nat
    BY DEF Common
  <2> HIDE DEF r, q
  <2>3. a = d * (m * q + k)
    <3>1. a = (d * m) * q + d * k
      BY <1>1, <2>1
    <3>2. (d * m) * q = d * (m * q)
      BY <1>1, <2>1, <2>2
    <3> QED BY <1>1, <2>1, <2>2, <3>1, <3>2
  <2>4. m * q + k \in Nat
    BY <1>1, <2>1
  <2> QED BY <2>1, <2>2, <2>3, <2>4 DEF Common, Divides
<1> QED BY <1>2, <1>3

LEMMA GreatestOfZero ==
    ASSUME NEW a \in Nat
    PROVE  Greatest(a, 0) = a
<1>1. a \in Common(a, 0) /\ \A d \in Common(a, 0) : Divides(d, a)
  <2>1. a = a * 1 /\ 0 = a * 0
    OBVIOUS
  <2> QED BY <2>1 DEF Common, Divides
<1>2. ASSUME NEW m \in Common(a, 0), \A d \in Common(a, 0) : Divides(d, m)
      PROVE  m = a
  <2>1. Divides(a, m) /\ Divides(m, a)
    BY <1>1, <1>2 DEF Common
  <2>2. PICK k \in Nat, l \in Nat : m = a * k /\ a = m * l
    BY <2>1 DEF Divides
  <2>3. m \in Nat
    BY DEF Common
  <2>4. CASE a = 0
    BY <2>2, <2>4
  <2>5. CASE a # 0
    <3>1. a * 1 = a * (k * l)
      BY <2>2
    <3>2. k * l = 1
      BY <2>5, <2>2, <3>1, Cancel DEF Positive
    <3>3. k = 1
      BY <2>2, <3>2
    <3> QED BY <2>2, <3>3
  <2> QED BY <2>4, <2>5
<1> QED BY <1>1, <1>2 DEF Greatest

\* The recursive definition says what it says: Greatest is one function that
\* satisfies it.
LEMMA GcdUnfolds ==
    ASSUME NEW a \in Nat, NEW b \in Nat
    PROVE  Gcd[<<a, b>>] = IF b = 0 THEN a ELSE Gcd[<<b, a % b>>]
<1> DEFINE Rule(g) == [x \in Nat \X Nat |-> IF x[2] = 0 THEN x[1] ELSE g[<<x[2], x[1] % x[2]>>]]
           G == [x \in Nat \X Nat |-> Greatest(x[1], x[2])]
<1>1. G = Rule(G)
  <2>1. ASSUME NEW x \in Nat, NEW y \in Nat
        PROVE  Greatest(x, y) = IF y = 0 THEN x ELSE G[<<y, x % y>>]
    <3>1. CASE y = 0
      BY <3>1, GreatestOfZero
    <3>2. CASE y # 0
      <4>1. Common(x, y) = Common(y, x % y)
        BY <3>2, DivisorOfRemainder DEF Positive
      <4>2. Greatest(x, y) = Greatest(y, x % y)
        BY <4>1 DEF Greatest
      <4>3. x % y \in Nat
        BY <3>2, Division DEF Positive
      <4>4. G[<<y, x % y>>] = Greatest(y, x % y)
        BY <4>3
      <4> QED BY <3>2, <4>2, <4>4
    <3> QED BY <3>1, <3>2
  <2> QED BY <2>1
<1>2. Gcd = CHOOSE g : g = Rule(g)
  BY DEF Gcd
<1>3. Gcd = Rule(Gcd)
  <2> HIDE DEF G, Rule
  <2> QED BY <1>1, <1>2
<1> HIDE DEF G
<1>4. Rule(Gcd)[a, b] = IF b = 0 THEN a ELSE Gcd[<<b, a % b>>]
  OBVIOUS
<1> HIDE DEF Rule
<1> QED BY <1>3, <1>4

\* By the least second argument for which it would fail.
LEMMA GcdDivides ==
    ASSUME NEW a \in Nat, NEW b \in Nat
    PROVE  /\ Divides(Gcd[<<a, b>>], a) /\ Divides(Gcd[<<a, b>>], b)
           /\ a + b > 0 => Gcd[<<a, b>>] > 0
<1> DEFINE Holds(x, y) == /\ Divides(Gcd[<<x, y>>], x) /\ Divides(Gcd[<<x, y>>], y)
                          /\ x + y > 0 => Gcd[<<x, y>>] > 0
           T == {y \in Nat : \E x \in Nat : ~Holds(x, y)}
<1>1. T = {}
  <2> SUFFICES ASSUME T # {} PROVE FALSE
    OBVIOUS
  <2>1. PICK y \in T : \A z \in T : y <= z
    BY LeastNatural
  <2>2. PICK x \in Nat : ~Holds(x, y)
    OBVIOUS
  <2>3. CASE y = 0
    <3>1. Gcd[<<x, y>>] = x
      BY <2>3, GcdUnfolds
    <3>2. x = x * 1 /\ 0 = x * 0
      OBVIOUS
    <3>3. Divides(x, x) /\ Divides(x, 0)
      BY <3>2 DEF Divides
    <3> QED BY <2>2, <2>3, <3>1, <3>3
  <2>4. CASE y # 0
    <3>1. y \in Positive
      BY <2>4 DEF Positive
    <3> DEFINE r == x % y
    <3>2. r \in Nat /\ r < y /\ Gcd[<<x, y>>] = Gcd[<<y, r>>]
      BY <3>1, Division, GcdUnfolds DEF Positive
    <3>3. Common(x, y) = Common(y, r)
      BY <3>1, DivisorOfRemainder
    <3> HIDE DEF r
    <3>4. Holds(y, r)
      BY <2>1, <3>2
    <3>5. Gcd[<<y, r>>] \in Common(y, r) /\ Gcd[<<y, r>>] > 0
      BY <3>1, <3>2, <3>4 DEF Common, Divides, Positive
    <3>6. Holds(x, y)
      BY <3>2, <3>3, <3>5 DEF Common
    <3> QED BY <2>2, <3>6
  <2> QED BY <2>3, <2>4
<1>2. Holds(a, b)
  BY <1>1
<1> QED BY <1>2

LEMMA RemainderScales ==
    ASSUME NEW k \in Positive, NEW a \in Nat, NEW b \in Positive
    PROVE  (k * a) % (k * b) = k * (a % b)
<1> DEFINE q == a \div b
           r == a % b
<1>1. q \in Int /\ r \in Nat /\ r < b /\ a = b * q + r
  BY Division DEF Positive
<1> HIDE DEF q, r
<1> DEFINE d == k * b
           s == k * r
<1>2. d \in Positive /\ s \in Nat /\ s < d
  BY <1>1 DEF Positive
<1>3. k * a = d * q + s
  BY <1>1 DEF Positive
<1> HIDE DEF d, s
<1>4. (d * q + s) % d = s
  BY <1>1, <1>2, Quotient
<1> QED BY <1>3, <1>4 DEF d, s, r

LEMMA GcdScales ==
    ASSUME NEW k \in Positive, NEW a \in Nat, NEW b \in Nat
    PROVE  Gcd[<<k * a, k * b>>] = k * Gcd[<<a, b>>]
<1> DEFINE Holds(x, y) == Gcd[<<k * x, k * y>>] = k * Gcd[<<x, y>>]
           T == {y \in Nat : \E x \in Nat : ~Holds(x, y)}
<1>1. T = {}
  <2> SUFFICES ASSUME T # {} PROVE FALSE
    OBVIOUS
  <2>1. PICK y \in T : \A z \in T : y <= z
    BY LeastNatural
  <2>2. PICK x \in Nat : ~Holds(x, y)
    OBVIOUS
  <2>3. k * x \in Nat /\ k * y \in Nat
    BY DEF Positive
  <2>4. CASE y = 0
    <3>1. k * y = 0
      BY <2>4 DEF Positive
    <3>2. Gcd[<<x, y>>] = x /\ Gcd[<<k * x, k * y>>] = k * x
      BY <2>3, <2>4, <3>1, GcdUnfolds
    <3> QED BY <2>2, <3>2
  <2>5. CASE y # 0
    <3>1. y \in Positive /\ k * y # 0
      BY <2>5 DEF Positive
    <3> DEFINE r == x % y
    <3>2. r \in Nat /\ r < y /\ Gcd[<<x, y>>] = Gcd[<<y, r>>]
      BY <3>1, Division, GcdUnfolds DEF Positive
    <3>3. Gcd[<<k * x, k * y>>] = Gcd[<<k * y, k * r>>]
      <4>1. Gcd[<<k * x, k * y>>] = Gcd[<<k * y, (k * x) % (k * y)>>]
        BY <2>3, <3>1, GcdUnfolds
      <4>2. (k * x) % (k * y) = k * r
        BY <3>1, RemainderScales
      <4> QED BY <4>1, <4>2
    <3> HIDE DEF r, Holds
    <3>4. Holds(y, r)
      BY <2>1, <3>2
    <3>5. Holds(x, y)
      BY <3>2, <3>3, <3>4 DEF Holds
    <3> QED BY <2>2, <3>5
  <2> QED BY <2>4, <2>5
<1>2. Holds(a, b)
  BY <1>1
<1> QED BY <1>2

----------------------------------------------------------------------------
\* Fractions in lowest terms are the rational numbers, one each.
Fractions == {f \in [num : Int, den : Positive] : Gcd[<<Magnitude(f.num), f.den>>] = 1}

\* A number and its magnitude.
LEMMA MagnitudeFacts ==
    ASSUME NEW n \in Int
    PROVE  /\ Magnitude(n) \in Nat
           /\ n \in {Magnitude(n), -Magnitude(n)}
           /\ \A k \in Positive : Magnitude(k * n) = k * Magnitude(n)
BY DEF Magnitude, Positive

LEMMA ExactQuotient ==
    ASSUME NEW g \in Positive, NEW m \in Int
    PROVE  (g * m) \div g = m
<1>1. g * m + 0 = g * m
  BY DEF Positive
<1> QED BY <1>1, Quotient DEF Positive

\* A fraction is reduced by what its terms have in common.
LEMMA Reduced ==
    ASSUME NEW n \in Int, NEW d \in Positive
    PROVE  \E g \in Positive, m \in Int, e \in Positive :
              /\ n = g * m /\ d = g * e
              /\ Gcd[<<Magnitude(n), d>>] = g /\ Gcd[<<Magnitude(m), e>>] = 1
              /\ Fraction(n, d) = [num |-> m, den |-> e]
<1> DEFINE g == Gcd[<<Magnitude(n), d>>]
<1>1. Magnitude(n) \in Nat /\ d \in Nat /\ Magnitude(n) + d > 0
  BY MagnitudeFacts DEF Positive
<1>2. Divides(g, Magnitude(n)) /\ Divides(g, d) /\ g > 0
  BY <1>1, GcdDivides
<1>3. g \in Positive
  BY <1>2 DEF Divides, Positive
<1>4. PICK k \in Nat, e \in Nat : Magnitude(n) = g * k /\ d = g * e
  BY <1>2 DEF Divides
<1>5. g = Gcd[<<Magnitude(n), d>>]
  OBVIOUS
<1>6. Fraction(n, d) = [num |-> n \div g, den |-> d \div g]
  BY DEF Fraction
<1> HIDE DEF g
<1>7. e \in Positive
  BY <1>3, <1>4 DEF Positive
<1>8. PICK m \in Int : n = g * m /\ Magnitude(m) = k
  <2>1. n \in {g * k, g * (-k)}
    <3>1. g * (-k) = -(g * k)
      BY <1>3, <1>4 DEF Positive
    <3> QED BY <1>4, <3>1, MagnitudeFacts
  <2>2. Magnitude(k) = k /\ Magnitude(-k) = k
    BY DEF Magnitude
  <2> QED BY <2>1, <2>2
<1>9. n \div g = m /\ d \div g = e
  BY <1>3, <1>4, <1>8, ExactQuotient
<1>10. Gcd[<<Magnitude(m), e>>] = 1
  <2>1. Gcd[<<g * k, g * e>>] = g * Gcd[<<k, e>>]
    BY <1>3, GcdScales
  <2>2. Gcd[<<k, e>>] \in Nat
    BY GcdDivides DEF Divides
  <2>3. g * 1 = g * Gcd[<<k, e>>]
    BY <1>3, <1>4, <1>5, <2>1 DEF Positive
  <2>4. 1 = Gcd[<<k, e>>]
    BY <1>3, <2>2, <2>3, Cancel
  <2> QED BY <1>8, <2>4
<1> QED BY <1>3, <1>4, <1>5, <1>6, <1>7, <1>8, <1>9, <1>10

\* What Fraction makes is in lowest terms and stands for n / d.
LEMMA FractionTyped ==
    ASSUME NEW n \in Int, NEW d \in Positive
    PROVE  /\ Fraction(n, d) \in Fractions
           /\ Fraction(n, d).num * d = n * Fraction(n, d).den
<1>1. PICK g \in Positive, m \in Int, e \in Positive :
              /\ n = g * m /\ d = g * e
              /\ Gcd[<<Magnitude(n), d>>] = g /\ Gcd[<<Magnitude(m), e>>] = 1
              /\ Fraction(n, d) = [num |-> m, den |-> e]
  BY Reduced
<1>2. m * (g * e) = (g * m) * e
  BY DEF Positive
<1> QED BY <1>1, <1>2 DEF Fractions

\* A common factor changes nothing.
LEMMA FractionScales ==
    ASSUME NEW n \in Int, NEW d \in Positive, NEW k \in Positive
    PROVE  Fraction(k * n, k * d) = Fraction(n, d)
<1>1. PICK g \in Positive, m \in Int, e \in Positive :
              /\ n = g * m /\ d = g * e
              /\ Gcd[<<Magnitude(n), d>>] = g /\ Gcd[<<Magnitude(m), e>>] = 1
              /\ Fraction(n, d) = [num |-> m, den |-> e]
  BY Reduced
<1>2. Gcd[<<Magnitude(k * n), k * d>>] = k * g
  <2>1. Magnitude(k * n) = k * Magnitude(n) /\ Magnitude(n) \in Nat /\ d \in Nat
    BY MagnitudeFacts DEF Positive
  <2>2. Gcd[<<k * Magnitude(n), k * d>>] = k * Gcd[<<Magnitude(n), d>>]
    BY <2>1, GcdScales
  <2>3. Gcd[<<Magnitude(n), d>>] = g
    BY <1>1
  <2> QED BY <2>1, <2>2, <2>3
<1>3. k * g \in Positive /\ k * n = (k * g) * m /\ k * d = (k * g) * e
  <2>1. k * g \in Positive
    BY DEF Positive
  <2>2. k * (g * m) = (k * g) * m /\ k * (g * e) = (k * g) * e
    BY DEF Positive
  <2> QED BY <1>1, <2>1, <2>2
<1>4. (k * n) \div (k * g) = m /\ (k * d) \div (k * g) = e
  BY <1>3, ExactQuotient DEF Positive
<1> QED BY <1>1, <1>2, <1>4 DEF Fraction

\* Two ways to write a number are one fraction.
LEMMA OneFraction ==
    ASSUME NEW n \in Int, NEW d \in Positive, NEW m \in Int, NEW e \in Positive, n * e = m * d
    PROVE  Fraction(n, d) = Fraction(m, e)
<1>1. Fraction(e * n, e * d) = Fraction(n, d) /\ Fraction(d * m, d * e) = Fraction(m, e)
  BY FractionScales
<1>2. e * n = d * m /\ e * d = d * e
  BY DEF Positive
<1> QED BY <1>1, <1>2

LEMMA FractionItself ==
    ASSUME NEW f \in Fractions
    PROVE  f.num \in Int /\ f.den \in Positive /\ f = Fraction(f.num, f.den)
<1>1. f.num \in Int /\ f.den \in Positive /\ f = [num |-> f.num, den |-> f.den]
  BY DEF Fractions
<1>2. 1 * f.num = f.num /\ 1 * f.den = f.den /\ 1 \in Positive
  BY <1>1 DEF Positive
<1>3. f.num \div 1 = f.num /\ f.den \div 1 = f.den
  BY <1>1, <1>2, ExactQuotient DEF Positive
<1> QED BY <1>1, <1>3 DEF Fraction, Fractions

LEMMA FractionIs ==
    ASSUME NEW f \in Fractions, NEW n \in Int, NEW d \in Positive, f.num * d = n * f.den
    PROVE  f = Fraction(n, d)
BY FractionItself, OneFraction
LEMMA Products ==
    ASSUME NEW b \in Positive, NEW d \in Positive
    PROVE  b * d \in Positive
BY DEF Positive

LEMMA CrossPlus ==
    ASSUME NEW x \in Int, NEW u \in Int, NEW a \in Int, NEW c \in Int,
           NEW y \in Int, NEW v \in Int, NEW b \in Int, NEW d \in Int, x * b = a * y, u * d = c * v
    PROVE  (x * v + u * y) * (b * d) = (a * d + c * b) * (y * v)
<1>1. (x * v + u * y) * (b * d) = (x * b) * (v * d) + (u * d) * (y * b)
  OBVIOUS
<1>2. (a * d + c * b) * (y * v) = (a * y) * (v * d) + (c * v) * (y * b)
  OBVIOUS
<1> QED BY <1>1, <1>2

LEMMA CrossTimes ==
    ASSUME NEW x \in Int, NEW u \in Int, NEW a \in Int, NEW c \in Int,
           NEW y \in Int, NEW v \in Int, NEW b \in Int, NEW d \in Int, x * b = a * y, u * d = c * v
    PROVE  (x * u) * (b * d) = (a * c) * (y * v)
<1>1. (x * u) * (b * d) = (x * b) * (u * d)
  OBVIOUS
<1>2. (a * c) * (y * v) = (a * y) * (c * v)
  OBVIOUS
<1> QED BY <1>1, <1>2

LEMMA Parts ==
    ASSUME NEW n \in Int, NEW d \in Positive
    PROVE  /\ Fraction(n, d) \in Fractions
           /\ Fraction(n, d).num \in Int /\ Fraction(n, d).den \in Positive /\ Fraction(n, d).den \in Int
           /\ Fraction(n, d).num * d = n * Fraction(n, d).den
<1>1. Fraction(n, d) \in Fractions /\ Fraction(n, d).num * d = n * Fraction(n, d).den
  BY FractionTyped
<1> QED BY <1>1, FractionItself DEF Positive

\* The operations, whatever way their operands are written.
LEMMA PlusFractions ==
    ASSUME NEW a \in Int, NEW b \in Positive, NEW c \in Int, NEW d \in Positive
    PROVE  Plus(Fraction(a, b), Fraction(c, d)) = Fraction(a * d + c * b, b * d)
<1> DEFINE f == Fraction(a, b)
           g == Fraction(c, d)
<1>1. f.num \in Int /\ f.den \in Positive /\ f.den \in Int /\ f.num * b = a * f.den
  BY Parts
<1>2. g.num \in Int /\ g.den \in Positive /\ g.den \in Int /\ g.num * d = c * g.den
  BY Parts
<1>3. Plus(f, g) = Fraction(f.num * g.den + g.num * f.den, f.den * g.den)
  BY DEF Plus
<1> HIDE DEF f, g
<1>4. b \in Int /\ d \in Int
  BY DEF Positive
<1>5. (f.num * g.den + g.num * f.den) * (b * d) = (a * d + c * b) * (f.den * g.den)
  <2> DEFINE x == f.num
             y == f.den
             u == g.num
             v == g.den
  <2>1. x \in Int /\ y \in Int /\ u \in Int /\ v \in Int /\ x * b = a * y /\ u * d = c * v
    BY <1>1, <1>2
  <2> HIDE DEF x, y, u, v
  <2>2. (x * v + u * y) * (b * d) = (a * d + c * b) * (y * v)
    BY <1>4, <2>1, CrossPlus
  <2> QED BY <2>2 DEF x, y, u, v
<1>6. f.den * g.den \in Positive /\ b * d \in Positive
  BY <1>1, <1>2, Products
<1>7. f.num * g.den + g.num * f.den \in Int /\ a * d + c * b \in Int
  BY <1>1, <1>2, <1>4
<1>8. Fraction(f.num * g.den + g.num * f.den, f.den * g.den) = Fraction(a * d + c * b, b * d)
  BY <1>5, <1>6, <1>7, OneFraction
<1> QED BY <1>3, <1>8 DEF f, g

LEMMA TimesFractions ==
    ASSUME NEW a \in Int, NEW b \in Positive, NEW c \in Int, NEW d \in Positive
    PROVE  Times(Fraction(a, b), Fraction(c, d)) = Fraction(a * c, b * d)
<1> DEFINE f == Fraction(a, b)
           g == Fraction(c, d)
<1>1. f.num \in Int /\ f.den \in Positive /\ f.den \in Int /\ f.num * b = a * f.den
  BY Parts
<1>2. g.num \in Int /\ g.den \in Positive /\ g.den \in Int /\ g.num * d = c * g.den
  BY Parts
<1>3. Times(f, g) = Fraction(f.num * g.num, f.den * g.den)
  BY DEF Times
<1> HIDE DEF f, g
<1>4. b \in Int /\ d \in Int
  BY DEF Positive
<1>5. (f.num * g.num) * (b * d) = (a * c) * (f.den * g.den)
  <2> DEFINE x == f.num
             y == f.den
             u == g.num
             v == g.den
  <2>1. x \in Int /\ y \in Int /\ u \in Int /\ v \in Int /\ x * b = a * y /\ u * d = c * v
    BY <1>1, <1>2
  <2> HIDE DEF x, y, u, v
  <2>2. (x * u) * (b * d) = (a * c) * (y * v)
    BY <1>4, <2>1, CrossTimes
  <2> QED BY <2>2 DEF x, y, u, v
<1>6. f.den * g.den \in Positive /\ b * d \in Positive
  BY <1>1, <1>2, Products
<1>7. f.num * g.num \in Int /\ a * c \in Int
  BY <1>1, <1>2
<1>8. Fraction(f.num * g.num, f.den * g.den) = Fraction(a * c, b * d)
  BY <1>5, <1>6, <1>7, OneFraction
<1> QED BY <1>3, <1>8 DEF f, g

LEMMA OverFractions ==
    ASSUME NEW a \in Int, NEW b \in Positive, NEW c \in Positive, NEW d \in Positive
    PROVE  Over(Fraction(a, b), Fraction(c, d)) = Fraction(a * d, b * c)
<1> DEFINE f == Fraction(a, b)
           g == Fraction(c, d)
<1>0. b \in Int /\ d \in Int /\ c \in Int
  BY DEF Positive
<1>1. f.num \in Int /\ f.den \in Positive /\ f.den \in Int /\ f.num * b = a * f.den
  BY Parts
<1>2. g.num \in Int /\ g.den \in Positive /\ g.den \in Int /\ g.num * d = c * g.den
  BY <1>0, Parts
<1>3. Over(f, g) = Fraction(f.num * g.den, f.den * g.num)
  BY DEF Over
<1> HIDE DEF f, g
<1>4. g.num \in Positive
  <2>1. d * g.num > 0
    BY <1>2 DEF Positive
  <2> QED BY <1>2, <2>1, SignOfFactor DEF Positive
<1>5. (f.num * g.den) * (b * c) = (a * d) * (f.den * g.num)
  <2> DEFINE x == f.num
             y == f.den
             u == g.num
             v == g.den
  <2>1. x \in Int /\ y \in Int /\ u \in Int /\ v \in Int /\ x * b = a * y /\ v * c = d * u
    BY <1>0, <1>1, <1>2
  <2> HIDE DEF x, y, u, v
  <2>2. (x * v) * (b * c) = (a * d) * (y * u)
    BY <1>0, <2>1, CrossTimes
  <2> QED BY <2>2 DEF x, y, u, v
<1>6. f.den * g.num \in Positive /\ b * c \in Positive
  BY <1>1, <1>4, Products
<1>7. f.num * g.den \in Int /\ a * d \in Int
  BY <1>0, <1>1, <1>2
<1>8. Fraction(f.num * g.den, f.den * g.num) = Fraction(a * d, b * c)
  BY <1>5, <1>6, <1>7, OneFraction
<1> QED BY <1>3, <1>8 DEF f, g

LEMMA Opposite ==
    ASSUME NEW c \in Int, NEW d \in Positive
    PROVE  [num |-> -(Fraction(c, d).num), den |-> Fraction(c, d).den] = Fraction(-c, d)
<1> DEFINE g == Fraction(c, d)
           h == [num |-> -(g.num), den |-> g.den]
<1>1. g \in Fractions /\ g.num \in Int /\ g.den \in Positive /\ g.den \in Int /\ g.num * d = c * g.den
  BY Parts
<1> HIDE DEF g
<1>2. h \in Fractions
  <2>1. Magnitude(-(g.num)) = Magnitude(g.num)
    BY <1>1 DEF Magnitude
  <2> QED BY <1>1, <2>1 DEF Fractions
<1>3. h.num * d = (-c) * h.den
  BY <1>1 DEF Positive
<1>4. h = Fraction(-c, d)
  BY <1>2, <1>3, FractionIs
<1> QED BY <1>4 DEF g

LEMMA MinusFractions ==
    ASSUME NEW a \in Int, NEW b \in Positive, NEW c \in Int, NEW d \in Positive
    PROVE  Minus(Fraction(a, b), Fraction(c, d)) = Fraction(a * d - c * b, b * d)
<1>1. Minus(Fraction(a, b), Fraction(c, d)) = Plus(Fraction(a, b), Fraction(-c, d))
  BY Opposite DEF Minus
<1>2. -c \in Int /\ (-c) * b = -(c * b) /\ a * d - c * b = a * d + (-c) * b
  BY DEF Positive
<1> QED BY <1>1, <1>2, PlusFractions

LEMMA GcdOfOne ==
    ASSUME NEW a \in Nat
    PROVE  Gcd[<<a, 1>>] = 1
<1>1. Gcd[<<a, 1>>] = Gcd[<<1, a % 1>>]
  BY GcdUnfolds
<1>2. a % 1 = 0
  BY Division DEF Positive
<1>3. Gcd[<<1, 0>>] = 1
  BY GcdUnfolds
<1> QED BY <1>1, <1>2, <1>3

LEMMA WholeFraction ==
    ASSUME NEW n \in Int
    PROVE  Whole(n) \in Fractions /\ Whole(n) = Fraction(n, 1)
<1>1. Whole(n) \in Fractions
  BY GcdOfOne, MagnitudeFacts DEF Whole, Fractions, Positive
<1>2. Whole(n).num * 1 = n * Whole(n).den /\ 1 \in Positive
  BY DEF Whole, Positive
<1> QED BY <1>1, <1>2, FractionIs

\* Rounding down does not depend on the way a number is written.
LEMMA FloorOfFraction ==
    ASSUME NEW n \in Int, NEW d \in Positive
    PROVE  Floor(Fraction(n, d)) = n \div d
<1> DEFINE f == Fraction(n, d)
           q == f.num \div f.den
           r == f.num % f.den
<1>1. f.num \in Int /\ f.den \in Positive /\ f.den \in Int /\ f.num * d = n * f.den
  BY Parts
<1>2. Floor(f) = q
  BY DEF Floor
<1> HIDE DEF f
<1>3. q \in Int /\ r \in Nat /\ r < f.den /\ f.num = f.den * q + r
  BY <1>1, Division
<1> HIDE DEF q, r
<1> DEFINE s == n - d * q
<1>4. s \in Int /\ n = d * q + s
  BY <1>3 DEF Positive
<1>5. f.den * s = d * r
  <2>1. f.den * (n - d * q) = n * f.den - d * (f.den * q)
    BY <1>1, <1>3 DEF Positive
  <2>2. n * f.den = (f.den * q + r) * d
    BY <1>1, <1>3
  <2>3. (f.den * q + r) * d = d * (f.den * q) + d * r
    BY <1>1, <1>3 DEF Positive
  <2>4. d * (f.den * q) \in Int /\ d * r \in Int /\ n * f.den \in Int
    BY <1>1, <1>3 DEF Positive
  <2> QED BY <2>1, <2>2, <2>3, <2>4
<1> HIDE DEF s
<1>6. s >= 0
  <2>1. d * r >= 0
    BY <1>3 DEF Positive
  <2> QED BY <1>1, <1>4, <1>5, <2>1, SignOfFactor
<1>7. s < d
  <2>1. d * (f.den - r) > 0
    BY <1>1, <1>3 DEF Positive
  <2>2. f.den * (d - s) = d * (f.den - r)
    <3>1. f.den * (d - s) = f.den * d - f.den * s /\ d * (f.den - r) = d * f.den - d * r
      BY <1>1, <1>3, <1>4 DEF Positive
    <3>2. f.den * d = d * f.den
      BY <1>1 DEF Positive
    <3> QED BY <1>5, <3>1, <3>2
  <2>3. d - s > 0
    BY <1>1, <1>4, <2>1, <2>2, SignOfFactor DEF Positive
  <2> QED BY <1>4, <2>3 DEF Positive
<1>8. n \div d = q
  BY <1>3, <1>4, <1>6, <1>7, Quotient
<1> QED BY <1>2, <1>8 DEF f

----------------------------------------------------------------------------
\* What holds of 0 and is kept by each step holds of every prefix.
LEMMA Prefixes ==
    ASSUME NEW n \in Nat, NEW S, 0 \in S, \A i \in 1..n : i - 1 \in S => i \in S
    PROVE  \A i \in 0..n : i \in S
<1> DEFINE T == {i \in 0..n : i \notin S}
<1> SUFFICES ASSUME T # {} PROVE FALSE
  OBVIOUS
<1>1. PICK m \in T : \A i \in T : m <= i
  <2>1. T \subseteq Nat
    OBVIOUS
  <2> QED BY <2>1, LeastNatural
<1>2. m \in 1..n
  OBVIOUS
<1>3. m - 1 \in 0..n /\ m - 1 < m
  BY <1>2
<1>4. m - 1 \in S
  BY <1>1, <1>3
<1> QED BY <1>2, <1>4

\* A running result, one element after the other.
IsRun(t, n, V, z, G) == t \in [0..n -> V] /\ t[0] = z /\ \A i \in 1..n : t[i] = G[<<i, t[i - 1]>>]

LEMMA RunExists ==
    ASSUME NEW n \in Nat, NEW V, NEW z \in V, NEW G \in [(1..n) \X V -> V]
    PROVE  \E t : IsRun(t, n, V, z, G)
<1> DEFINE Runs(i, t) == t = [j \in 0..i |-> IF j = 0 THEN z ELSE G[<<j, t[j - 1]>>]]
           S == {i \in 0..n : \E t \in [0..i -> V] : Runs(i, t)}
<1>1. 0 \in S
  <2> DEFINE t == [j \in 0..0 |-> z]
  <2>1. t \in [0..0 -> V] /\ Runs(0, t)
    OBVIOUS
  <2> HIDE DEF t, Runs
  <2> QED BY <2>1
<1>2. ASSUME NEW i \in 1..n, i - 1 \in S
      PROVE  i \in S
  <2>1. PICK t \in [0..(i - 1) -> V] : Runs(i - 1, t)
    BY <1>2
  <2> DEFINE u == [j \in 0..i |-> IF j < i THEN t[j] ELSE G[<<i, t[i - 1]>>]]
  <2>2. G[<<i, t[i - 1]>>] \in V
    OBVIOUS
  <2>3. u \in [0..i -> V]
    BY <2>2
  <2>4. ASSUME NEW j \in 0..i
        PROVE  u[j] = IF j = 0 THEN z ELSE G[<<j, u[j - 1]>>]
    <3>1. CASE j = 0
      BY <2>1, <3>1
    <3>2. CASE j # 0
      <4>1. j - 1 \in 0..(i - 1) /\ j - 1 < i /\ u[j - 1] = t[j - 1]
        BY <3>2
      <4>2. CASE j < i
        <5>1. u[j] = t[j] /\ t[j] = G[<<j, t[j - 1]>>]
          BY <2>1, <3>2, <4>2
        <5> QED BY <3>2, <4>1, <5>1
      <4>3. CASE j = i
        <5>1. u[i] = G[<<i, t[i - 1]>>]
          OBVIOUS
        <5> QED BY <3>2, <4>1, <4>3, <5>1
      <4> QED BY <4>2, <4>3
    <3> QED BY <3>1, <3>2
  <2>5. Runs(i, u)
    <3> DEFINE v == [j \in 0..i |-> IF j = 0 THEN z ELSE G[<<j, u[j - 1]>>]]
    <3>1. \A j \in 0..i : u[j] = v[j]
      BY <2>4
    <3>2. u = v
      <4>1. DOMAIN u = 0..i /\ DOMAIN v = 0..i /\ u = [j \in 0..i |-> u[j]] /\ v = [j \in 0..i |-> v[j]]
        OBVIOUS
      <4> HIDE DEF u, v
      <4> QED BY <3>1, <4>1
    <3> QED BY <3>2
  <2> HIDE DEF u, Runs
  <2> QED BY <2>3, <2>5
<1> HIDE DEF S
<1>3. n \in S
  BY <1>1, <1>2, Prefixes
<1>4. PICK t \in [0..n -> V] : Runs(n, t)
  BY <1>3 DEF S
<1>5. t[0] = z /\ \A i \in 1..n : t[i] = G[<<i, t[i - 1]>>]
  BY <1>4
<1> QED BY <1>5 DEF IsRun

\* Total adds one element after the other.
LEMMA TotalIs ==
    ASSUME NEW n \in Nat, NEW s \in [1..n -> Fractions]
    PROVE  \E t \in [0..n -> Fractions] :
              /\ t[0] = Zero /\ \A i \in 1..n : t[i] = Plus(t[i - 1], s[i])
              /\ Total(s) = t[n]
<1>1. Zero \in Fractions
  BY WholeFraction DEF Zero
<1>2. \A f, g \in Fractions : Plus(f, g) \in Fractions
  <2> TAKE f, g \in Fractions
  <2>1. f.num \in Int /\ f.den \in Positive /\ g.num \in Int /\ g.den \in Positive
    BY FractionItself
  <2>2. f.num * g.den + g.num * f.den \in Int
    BY <2>1 DEF Positive
  <2> QED BY <2>1, <2>2, Products, Parts DEF Plus
<1> DEFINE G == [x \in (1..n) \X Fractions |-> Plus(x[2], s[x[1]])]
           Rule(t) == [i \in 0..n |-> IF i = 0 THEN Zero ELSE Plus(t[i - 1], s[i])]
<1>3. G \in [(1..n) \X Fractions -> Fractions]
  BY <1>2
<1>4. PICK t \in [0..n -> Fractions] : t[0] = Zero /\ \A i \in 1..n : t[i] = G[<<i, t[i - 1]>>]
  <2>1. \E t : IsRun(t, n, Fractions, Zero, G)
    <3> HIDE DEF G
    <3> QED BY <1>1, <1>3, RunExists
  <2> QED BY <2>1 DEF IsRun
<1>5. t = Rule(t)
  <2>1. \A i \in 1..n : G[<<i, t[i - 1]>>] = Plus(t[i - 1], s[i])
    OBVIOUS
  <2> HIDE DEF G
  <2>2. ASSUME NEW i \in 0..n PROVE t[i] = IF i = 0 THEN Zero ELSE Plus(t[i - 1], s[i])
    <3>1. CASE i = 0
      BY <1>4, <3>1
    <3>2. CASE i # 0
      <4>1. i \in 1..n
        BY <3>2
      <4> QED BY <1>4, <2>1, <3>2, <4>1
    <3> QED BY <3>1, <3>2
  <2> QED BY <2>2
<1>6. Len(s) = n
  BY IsASeq, LenProperties
<1> DEFINE sum == CHOOSE g : g = Rule(g)
<1>7. Total(s) = sum[n]
  BY <1>6 DEF Total
<1>8. sum = Rule(sum)
  <2> HIDE DEF Rule
  <2> QED BY <1>5
<1>9. \E g \in [0..n -> Fractions] : g = sum
  <2> DEFINE S == {i \in 0..n : sum[i] \in Fractions}
  <2> HIDE DEF sum
  <2>1. 0 \in S
    BY <1>1, <1>8
  <2>2. \A i \in 1..n : i - 1 \in S => i \in S
    <3> SUFFICES ASSUME NEW i \in 1..n, i - 1 \in S PROVE i \in S
      OBVIOUS
    <3>1. sum[i] = Plus(sum[i - 1], s[i])
      BY <1>8
    <3> QED BY <1>2, <3>1
  <2> HIDE DEF S
  <2>3. \A i \in 0..n : i \in S
    BY <2>1, <2>2, Prefixes
  <2>4. \A i \in 0..n : sum[i] \in Fractions
    BY <2>3 DEF S
  <2> QED BY <1>8, <2>4
<1> HIDE DEF sum
<1>10. sum[0] = Zero /\ \A i \in 1..n : sum[i] = Plus(sum[i - 1], s[i])
  BY <1>8
<1> QED BY <1>7, <1>9, <1>10

----------------------------------------------------------------------------
LEMMA SignOfFraction ==
    ASSUME NEW n \in Int, NEW d \in Positive
    PROVE  /\ n >= 0 <=> Fraction(n, d).num >= 0
           /\ n > 0 <=> Fraction(n, d).num > 0
<1> DEFINE x == Fraction(n, d).num
           y == Fraction(n, d).den
<1>1. x \in Int /\ y \in Positive /\ x * d = n * y
  BY Parts
<1> HIDE DEF x, y
<1>2. n >= 0 <=> x >= 0
  BY <1>1 DEF Positive
<1>3. n > 0 <=> x > 0
  BY <1>1 DEF Positive
<1> QED BY <1>2, <1>3 DEF x

LEMMA Operations ==
    ASSUME NEW f \in Fractions, NEW g \in Fractions
    PROVE  /\ Plus(f, g) \in Fractions /\ Minus(f, g) \in Fractions /\ Times(f, g) \in Fractions
           /\ g.num > 0 => Over(f, g) \in Fractions
<1>1. /\ f.num \in Int /\ f.den \in Positive /\ f = Fraction(f.num, f.den)
      /\ g.num \in Int /\ g.den \in Positive /\ g = Fraction(g.num, g.den)
  BY FractionItself
<1>2. /\ f.num * g.den + g.num * f.den \in Int /\ f.num * g.den - g.num * f.den \in Int
      /\ f.num * g.num \in Int /\ f.num * g.den \in Int
  BY <1>1 DEF Positive
<1>3. Plus(f, g) \in Fractions
  BY <1>1, <1>2, Products, Parts DEF Plus
<1>4. Minus(f, g) \in Fractions
  BY <1>1, <1>2, Products, Parts, MinusFractions
<1>5. Times(f, g) \in Fractions
  BY <1>1, <1>2, Products, Parts DEF Times
<1>6. ASSUME g.num > 0 PROVE Over(f, g) \in Fractions
  <2>1. g.num \in Positive
    BY <1>1, <1>6 DEF Positive
  <2> QED BY <1>1, <1>2, <2>1, Products, Parts DEF Over
<1> QED BY <1>3, <1>4, <1>5, <1>6

LEMMA SignOfSum ==
    ASSUME NEW f \in Fractions, NEW g \in Fractions, f.num >= 0, g.num >= 0
    PROVE  /\ Plus(f, g).num >= 0
           /\ f.num > 0 \/ g.num > 0 => Plus(f, g).num > 0
<1>1. f.num \in Int /\ f.den \in Positive /\ g.num \in Int /\ g.den \in Positive
  BY FractionItself
<1> DEFINE n == f.num * g.den + g.num * f.den
           d == f.den * g.den
<1>2. n \in Int /\ n >= 0 /\ (f.num > 0 \/ g.num > 0 => n > 0)
  <2>1. f.num * g.den \in Int /\ f.num * g.den >= 0 /\ (f.num > 0 => f.num * g.den > 0)
    BY <1>1 DEF Positive
  <2>2. g.num * f.den \in Int /\ g.num * f.den >= 0 /\ (g.num > 0 => g.num * f.den > 0)
    BY <1>1 DEF Positive
  <2> QED BY <2>1, <2>2
<1>3. d \in Positive
  BY <1>1, Products
<1>4. Plus(f, g) = Fraction(n, d)
  BY DEF Plus
<1> HIDE DEF n, d
<1> QED BY <1>2, <1>3, <1>4, SignOfFraction

\* A sum of differences is a difference of sums; a sum of multiples is a
\* multiple.
LEMMA Exchange ==
    ASSUME NEW a \in Fractions, NEW b \in Fractions, NEW x \in Fractions, NEW y \in Fractions
    PROVE  Plus(Minus(a, b), Minus(x, y)) = Minus(Plus(a, x), Plus(b, y))
<1>1. PICK an \in Int, ad \in Positive : a = Fraction(an, ad)
  BY FractionItself
<1>2. PICK bn \in Int, bd \in Positive : b = Fraction(bn, bd)
  BY FractionItself
<1>3. PICK xn \in Int, xd \in Positive : x = Fraction(xn, xd)
  BY FractionItself
<1>4. PICK yn \in Int, yd \in Positive : y = Fraction(yn, yd)
  BY FractionItself
<1>5. ad \in Int /\ bd \in Int /\ xd \in Int /\ yd \in Int
  BY DEF Positive
<1>6. /\ ad * bd \in Positive /\ xd * yd \in Positive /\ ad * xd \in Positive /\ bd * yd \in Positive
  BY Products
<1>7. /\ an * bd - bn * ad \in Int /\ xn * yd - yn * xd \in Int
      /\ an * xd + xn * ad \in Int /\ bn * yd + yn * bd \in Int
  BY <1>5
<1>8. Minus(a, b) = Fraction(an * bd - bn * ad, ad * bd) /\ Minus(x, y) = Fraction(xn * yd - yn * xd, xd * yd)
  BY <1>1, <1>2, <1>3, <1>4, MinusFractions
<1>9. Plus(a, x) = Fraction(an * xd + xn * ad, ad * xd) /\ Plus(b, y) = Fraction(bn * yd + yn * bd, bd * yd)
  BY <1>1, <1>2, <1>3, <1>4, PlusFractions
<1>10. Plus(Minus(a, b), Minus(x, y))
          = Fraction((an * bd - bn * ad) * (xd * yd) + (xn * yd - yn * xd) * (ad * bd), (ad * bd) * (xd * yd))
  BY <1>6, <1>7, <1>8, PlusFractions
<1>11. Minus(Plus(a, x), Plus(b, y))
          = Fraction((an * xd + xn * ad) * (bd * yd) - (bn * yd + yn * bd) * (ad * xd), (ad * xd) * (bd * yd))
  BY <1>6, <1>7, <1>9, MinusFractions
<1>12. (an * bd - bn * ad) * (xd * yd) + (xn * yd - yn * xd) * (ad * bd)
          = (an * xd + xn * ad) * (bd * yd) - (bn * yd + yn * bd) * (ad * xd)
  BY <1>5
<1>13. (ad * bd) * (xd * yd) = (ad * xd) * (bd * yd)
  BY <1>5
<1> QED BY <1>10, <1>11, <1>12, <1>13

LEMMA Distribute ==
    ASSUME NEW a \in Fractions, NEW x \in Fractions, NEW f \in Fractions
    PROVE  Plus(Times(a, f), Times(x, f)) = Times(Plus(a, x), f)
<1>1. PICK an \in Int, ad \in Positive : a = Fraction(an, ad)
  BY FractionItself
<1>2. PICK xn \in Int, xd \in Positive : x = Fraction(xn, xd)
  BY FractionItself
<1>3. PICK fn \in Int, fd \in Positive : f = Fraction(fn, fd)
  BY FractionItself
<1>4. ad \in Int /\ xd \in Int /\ fd \in Int
  BY DEF Positive
<1>5. ad * fd \in Positive /\ xd * fd \in Positive /\ ad * xd \in Positive /\ (ad * xd) * fd \in Positive
  BY Products
<1>6. an * fn \in Int /\ xn * fn \in Int /\ an * xd + xn * ad \in Int /\ (an * xd + xn * ad) * fn \in Int
  BY <1>4
<1>7. Times(a, f) = Fraction(an * fn, ad * fd) /\ Times(x, f) = Fraction(xn * fn, xd * fd)
  BY <1>1, <1>2, <1>3, TimesFractions
<1>8. Plus(Times(a, f), Times(x, f)) = Fraction((an * fn) * (xd * fd) + (xn * fn) * (ad * fd), (ad * fd) * (xd * fd))
  BY <1>5, <1>6, <1>7, PlusFractions
<1>9. Plus(a, x) = Fraction(an * xd + xn * ad, ad * xd)
  BY <1>1, <1>2, PlusFractions
<1>10. Times(Plus(a, x), f) = Fraction((an * xd + xn * ad) * fn, (ad * xd) * fd)
  BY <1>3, <1>5, <1>6, <1>9, TimesFractions
<1>11. (an * fn) * (xd * fd) + (xn * fn) * (ad * fd) = fd * ((an * xd + xn * ad) * fn)
  BY <1>4
<1>12. (ad * fd) * (xd * fd) = fd * ((ad * xd) * fd)
  BY <1>4
<1>13. Fraction(fd * ((an * xd + xn * ad) * fn), fd * ((ad * xd) * fd))
          = Fraction((an * xd + xn * ad) * fn, (ad * xd) * fd)
  BY <1>5, <1>6, FractionScales
<1> QED BY <1>8, <1>10, <1>11, <1>12, <1>13

LEMMA ZeroFacts ==
    /\ Zero \in Fractions /\ Zero.num = 0 /\ Minus(Zero, Zero) = Zero
    /\ \A f \in Fractions : Times(Zero, f) = Zero
    /\ \A d \in Positive : Zero = Fraction(0, d)
<1>1. Zero \in Fractions /\ Zero = Fraction(0, 1) /\ Zero.num = 0 /\ 1 \in Positive
  BY WholeFraction DEF Zero, Whole, Positive
<1>2. ASSUME NEW d \in Positive PROVE Zero = Fraction(0, d)
  <2>1. 0 * d = 0 * 1
    BY DEF Positive
  <2> QED BY <1>1, <2>1, OneFraction
<1>3. Minus(Zero, Zero) = Fraction(0 * 1 - 0 * 1, 1 * 1)
  BY <1>1, MinusFractions
<1>4. Minus(Zero, Zero) = Zero
  BY <1>1, <1>3
<1>5. ASSUME NEW f \in Fractions PROVE Times(Zero, f) = Zero
  <2>1. f.num \in Int /\ f.den \in Positive /\ f = Fraction(f.num, f.den)
    BY FractionItself
  <2>2. Times(Zero, f) = Fraction(0 * f.num, 1 * f.den)
    BY <1>1, <2>1, TimesFractions
  <2>3. 0 * f.num = 0 /\ 1 * f.den = f.den
    BY <2>1 DEF Positive
  <2> QED BY <1>2, <2>1, <2>2, <2>3
<1> QED BY <1>1, <1>2, <1>4, <1>5

LEMMA TotalOfDifferences ==
    ASSUME NEW n \in Nat, NEW s \in [1..n -> Fractions], NEW e \in [1..n -> Fractions],
           NEW d \in [1..n -> Fractions], \A i \in 1..n : d[i] = Minus(s[i], e[i])
    PROVE  Total(d) = Minus(Total(s), Total(e))
<1>1. PICK ts \in [0..n -> Fractions] :
        ts[0] = Zero /\ (\A i \in 1..n : ts[i] = Plus(ts[i - 1], s[i])) /\ Total(s) = ts[n]
  BY TotalIs
<1>2. PICK te \in [0..n -> Fractions] :
        te[0] = Zero /\ (\A i \in 1..n : te[i] = Plus(te[i - 1], e[i])) /\ Total(e) = te[n]
  BY TotalIs
<1>3. PICK td \in [0..n -> Fractions] :
        td[0] = Zero /\ (\A i \in 1..n : td[i] = Plus(td[i - 1], d[i])) /\ Total(d) = td[n]
  BY TotalIs
<1> DEFINE S == {i \in 0..n : td[i] = Minus(ts[i], te[i])}
<1>4. 0 \in S
  BY <1>1, <1>2, <1>3, ZeroFacts
<1>5. ASSUME NEW i \in 1..n, i - 1 \in S PROVE i \in S
  <2>1. /\ td[i] = Plus(Minus(ts[i - 1], te[i - 1]), Minus(s[i], e[i]))
        /\ ts[i] = Plus(ts[i - 1], s[i]) /\ te[i] = Plus(te[i - 1], e[i])
    BY <1>1, <1>2, <1>3, <1>5
  <2>2. ts[i - 1] \in Fractions /\ te[i - 1] \in Fractions /\ s[i] \in Fractions /\ e[i] \in Fractions
    OBVIOUS
  <2>3. td[i] = Minus(ts[i], te[i])
    BY <2>1, <2>2, Exchange
  <2> QED BY <2>3
<1> HIDE DEF S
<1>6. \A i \in 0..n : i \in S
  BY <1>4, <1>5, Prefixes
<1> QED BY <1>1, <1>2, <1>3, <1>6 DEF S

LEMMA TotalOfMultiples ==
    ASSUME NEW n \in Nat, NEW s \in [1..n -> Fractions], NEW f \in Fractions,
           NEW d \in [1..n -> Fractions], \A i \in 1..n : d[i] = Times(s[i], f)
    PROVE  Total(d) = Times(Total(s), f)
<1>1. PICK ts \in [0..n -> Fractions] :
        ts[0] = Zero /\ (\A i \in 1..n : ts[i] = Plus(ts[i - 1], s[i])) /\ Total(s) = ts[n]
  BY TotalIs
<1>2. PICK td \in [0..n -> Fractions] :
        td[0] = Zero /\ (\A i \in 1..n : td[i] = Plus(td[i - 1], d[i])) /\ Total(d) = td[n]
  BY TotalIs
<1> DEFINE S == {i \in 0..n : td[i] = Times(ts[i], f)}
<1>3. 0 \in S
  BY <1>1, <1>2, ZeroFacts
<1>4. ASSUME NEW i \in 1..n, i - 1 \in S PROVE i \in S
  <2>1. /\ td[i] = Plus(Times(ts[i - 1], f), Times(s[i], f))
        /\ ts[i] = Plus(ts[i - 1], s[i])
    BY <1>1, <1>2, <1>4
  <2>2. ts[i - 1] \in Fractions /\ s[i] \in Fractions
    OBVIOUS
  <2>3. td[i] = Times(ts[i], f)
    BY <2>1, <2>2, Distribute
  <2> QED BY <2>3
<1> HIDE DEF S
<1>5. \A i \in 0..n : i \in S
  BY <1>3, <1>4, Prefixes
<1> QED BY <1>1, <1>2, <1>5 DEF S

LEMMA TotalIsFraction ==
    ASSUME NEW n \in Nat, NEW s \in [1..n -> Fractions]
    PROVE  Total(s) \in Fractions
BY TotalIs

\* A sum of quantities is positive as soon as one of them is.
LEMMA SignOfTotal ==
    ASSUME NEW n \in Nat, NEW s \in [1..n -> Fractions], \A i \in 1..n : s[i].num >= 0,
           NEW k \in 1..n, s[k].num > 0
    PROVE  Total(s).num > 0
<1>1. PICK t \in [0..n -> Fractions] :
        t[0] = Zero /\ (\A i \in 1..n : t[i] = Plus(t[i - 1], s[i])) /\ Total(s) = t[n]
  BY TotalIs
<1> DEFINE S == {i \in 0..n : t[i].num >= 0 /\ (k <= i => t[i].num > 0)}
<1>2. 0 \in S
  BY <1>1, ZeroFacts
<1>3. ASSUME NEW i \in 1..n, i - 1 \in S PROVE i \in S
  <2>1. t[i - 1] \in Fractions /\ s[i] \in Fractions /\ t[i] = Plus(t[i - 1], s[i])
    BY <1>1
  <2>2. t[i - 1].num >= 0 /\ (k <= i - 1 => t[i - 1].num > 0) /\ s[i].num >= 0 /\ (k = i => s[i].num > 0)
    BY <1>3
  <2>3. t[i].num >= 0 /\ (t[i - 1].num > 0 \/ s[i].num > 0 => t[i].num > 0)
    BY <2>1, <2>2, SignOfSum
  <2>4. k <= i => k <= i - 1 \/ k = i
    OBVIOUS
  <2> QED BY <2>2, <2>3, <2>4
<1> HIDE DEF S
<1>4. \A i \in 0..n : i \in S
  BY <1>2, <1>3, Prefixes
<1> QED BY <1>1, <1>4 DEF S

----------------------------------------------------------------------------
\* A half at most upwards, less than a half downwards.
LEMMA RoundIs ==
    ASSUME NEW f \in Fractions, NEW step \in Positive
    PROVE  LET r == Round(f, Decimal(step))
               delta == Minus(r, f)
           IN /\ r \in Fractions /\ (r.num * 1000) % (r.den * step) = 0
              /\ 2000 * delta.num <= step * delta.den
              /\ -2000 * delta.num < step * delta.den
<1> DEFINE ratio == Over(f, Decimal(step))
           rn == ratio.num
           rd == ratio.den
           q == (2 * rn + rd) \div (2 * rd)
           rem == (2 * rn + rd) % (2 * rd)
           r == Round(f, Decimal(step))
           delta == Minus(r, f)
<1>1. PICK fn \in Int, fd \in Positive : f = Fraction(fn, fd)
  BY FractionItself
<1>2. Decimal(step) = Fraction(step, 1000) /\ 1000 \in Positive /\ step \in Int
  BY DEF Decimal, Positive
<1>3. /\ rn \in Int /\ rd \in Positive /\ rd \in Int
      /\ rn * (fd * step) = (fn * 1000) * rd
  <2>1. ratio = Fraction(fn * 1000, fd * step)
    BY <1>1, <1>2, OverFractions
  <2>2. fn * 1000 \in Int /\ fd * step \in Positive
    BY Products
  <2> QED BY <2>1, <2>2, Parts
<1>4. r = Times(Whole(q), Decimal(step))
  BY DEF Round
<1> HIDE DEF ratio, r
<1> HIDE DEF rn, rd
<1>5. q \in Int /\ rem \in Nat /\ rem < 2 * rd /\ 2 * rn + rd = (2 * rd) * q + rem
  <2>1. 2 * rn + rd \in Int /\ 2 * rd \in Positive
    BY <1>3 DEF Positive
  <2> QED BY <2>1, Division
<1> HIDE DEF q, rem
<1>6. r = Fraction(q * step, 1000)
  <2>1. Whole(q) = Fraction(q, 1) /\ 1 \in Positive
    BY <1>5, WholeFraction DEF Positive
  <2>2. r = Fraction(q * step, 1 * 1000)
    BY <1>2, <1>4, <1>5, <2>1, TimesFractions
  <2> QED BY <2>2
<1>7. q * step \in Int
  BY <1>2, <1>5
<1>8. r \in Fractions /\ r.num \in Int /\ r.den \in Positive /\ r.num * 1000 = (q * step) * r.den
  BY <1>2, <1>6, <1>7, Parts
<1>9. (r.num * 1000) % (r.den * step) = 0
  <2> DEFINE d == r.den * step
  <2>1. d \in Positive
    BY <1>8, Products
  <2>2. r.num * 1000 = d * q + 0
    <3>1. (q * step) * r.den = (r.den * step) * q
      BY <1>2, <1>5, <1>8 DEF Positive
    <3>2. d * q \in Int
      BY <1>5, <2>1 DEF Positive
    <3> QED BY <1>8, <3>1, <3>2
  <2> HIDE DEF d
  <2>3. 0 < d
    BY <2>1 DEF Positive
  <2>4. (d * q + 0) % d = 0
    BY <1>5, <2>1, <2>3, Quotient
  <2> QED BY <2>2, <2>4 DEF d
<1> DEFINE z == q * rd - rn
<1>10. z \in Int /\ 2 * z <= rd /\ -(2 * z) < rd
  <2>1. (2 * rd) * q = 2 * (q * rd) /\ q * rd \in Int
    BY <1>3, <1>5
  <2>2. 2 * z = rd - rem
    BY <1>3, <1>5, <2>1
  <2> QED BY <1>3, <1>5, <2>1, <2>2
<1>11. f = Fraction(rn * step, rd * 1000)
  <2>1. fn * (rd * 1000) = (rn * step) * fd
    <3>1. fn * (rd * 1000) = (fn * 1000) * rd
      BY <1>3
    <3>2. (rn * step) * fd = rn * (fd * step)
      BY <1>2, <1>3 DEF Positive
    <3> QED BY <1>3, <3>1, <3>2
  <2>2. rn * step \in Int /\ rd * 1000 \in Positive
    BY <1>2, <1>3, Products
  <2> QED BY <1>1, <2>1, <2>2, OneFraction
<1>12. delta = Fraction(step * z, 1000 * rd)
  <2>1. rn * step \in Int /\ rd * 1000 \in Positive /\ step * z \in Int /\ 1000 * rd \in Positive
    BY <1>2, <1>3, <1>10, Products
  <2>2. delta = Fraction((q * step) * (rd * 1000) - (rn * step) * 1000, 1000 * (rd * 1000))
    <3> DEFINE a == q * step
               c == rn * step
               d == rd * 1000
    <3>1. delta = Minus(Fraction(a, 1000), Fraction(c, d))
      BY <1>6, <1>11
    <3>2. a \in Int /\ c \in Int /\ d \in Positive
      BY <1>7, <2>1
    <3> HIDE DEF a, c, d, delta
    <3>3. delta = Fraction(a * d - c * 1000, 1000 * d)
      BY <1>2, <3>1, <3>2, MinusFractions
    <3> QED BY <3>3 DEF a, c, d
  <2>3. (q * step) * (rd * 1000) - (rn * step) * 1000 = 1000 * (step * z)
    BY <1>2, <1>3, <1>5
  <2>4. 1000 * (rd * 1000) = 1000 * (1000 * rd)
    BY <1>3
  <2>5. Fraction(1000 * (step * z), 1000 * (1000 * rd)) = Fraction(step * z, 1000 * rd)
    <3> DEFINE n == step * z
               d == 1000 * rd
    <3>1. n \in Int /\ d \in Positive
      BY <2>1
    <3> HIDE DEF n, d
    <3>2. Fraction(1000 * n, 1000 * d) = Fraction(n, d)
      BY <1>2, <3>1, FractionScales
    <3> QED BY <3>2 DEF n, d
  <2> QED BY <2>2, <2>3, <2>4, <2>5
<1>13. /\ delta.num \in Int /\ delta.den \in Positive /\ delta.den \in Int
       /\ delta.num * (1000 * rd) = (step * z) * delta.den
  <2>1. step * z \in Int /\ 1000 * rd \in Positive
    BY <1>2, <1>3, <1>10, Products
  <2> QED BY <1>12, <2>1, Parts
<1> HIDE DEF z, delta
<1> DEFINE dn == delta.num
           dd == delta.den
           side == step * dd
<1>14. dn \in Int /\ dd \in Int /\ side \in Positive /\ side \in Int /\ dn * (1000 * rd) = (step * z) * dd
  <2>1. step * dd \in Positive
    BY <1>13, Products
  <2> QED BY <1>13, <2>1 DEF Positive
<1>15. dn * (1000 * rd) = side * z
  <2>1. (step * z) * dd = (step * dd) * z
    BY <1>2, <1>10, <1>14
  <2> QED BY <1>14, <2>1
<1> HIDE DEF dn, dd, side
<1>16. rd * (side - 2000 * dn) = side * (rd - 2 * z) /\ rd * (side + 2000 * dn) = side * (rd + 2 * z)
  <2>1. rd * (2000 * dn) = 2 * (side * z)
    <3>1. rd * (2000 * dn) = 2 * (dn * (1000 * rd))
      BY <1>3, <1>14
    <3> QED BY <1>15, <3>1
  <2>2. rd * (side - 2000 * dn) = rd * side - rd * (2000 * dn) /\ rd * (side + 2000 * dn) = rd * side + rd * (2000 * dn)
    BY <1>3, <1>14
  <2>3. side * (rd - 2 * z) = rd * side - 2 * (side * z) /\ side * (rd + 2 * z) = rd * side + 2 * (side * z)
    BY <1>3, <1>10, <1>14
  <2> QED BY <2>1, <2>2, <2>3
<1>17. side - 2000 * dn >= 0
  <2>1. side * (rd - 2 * z) >= 0
    <3>1. rd - 2 * z \in Nat
      BY <1>3, <1>10
    <3> QED BY <1>14, <3>1 DEF Positive
  <2> QED BY <1>3, <1>14, <1>16, <2>1, SignOfFactor
<1>18. side + 2000 * dn > 0
  <2>1. side * (rd + 2 * z) > 0
    <3>1. rd + 2 * z \in Positive
      BY <1>3, <1>10 DEF Positive
    <3> DEFINE w == rd + 2 * z
    <3>2. w \in Positive
      BY <3>1
    <3> HIDE DEF w
    <3>3. side * w \in Positive
      BY <1>14, <3>2, Products
    <3> QED BY <3>3 DEF Positive, w
  <2> QED BY <1>3, <1>14, <1>16, <2>1, SignOfFactor
<1>19. 2000 * dn <= side /\ -2000 * dn < side
  BY <1>14, <1>17, <1>18
<1> QED BY <1>8, <1>9, <1>19 DEF dn, dd, side, delta, r

----------------------------------------------------------------------------
\* What a calculation that is accepted works on.
Calculable(content, p) == IsContent(content) /\ IsParameters(p) /\ Calculates(content, p)

LEMMA ContentTyped ==
    ASSUME NEW content, IsContent(content)
    PROVE  /\ Len(content.lines) \in Nat /\ DOMAIN content.lines = 1..Len(content.lines)
           /\ \A i \in DOMAIN content.lines : content.lines[i].amount \in Nat /\ content.lines[i].unit \in Units
           /\ \A i \in DOMAIN content.garnishes :
                 content.garnishes[i].amount \in Nat /\ content.garnishes[i].unit \in Units
<1> DEFINE Line == [slug : Slugs, amount : Nat, unit : Units, override : Degrees, unknown : BOOLEAN]
           Garnish == [slug : Slugs, amount : Nat, unit : Units]
<1>1. content.lines \in Seq(Line) /\ content.garnishes \in Seq(Garnish)
  BY DEF IsContent
<1>2. /\ \A x \in Line : x.amount \in Nat /\ x.unit \in Units
      /\ \A x \in Garnish : x.amount \in Nat /\ x.unit \in Units
  OBVIOUS
<1> HIDE DEF Line, Garnish
<1>3. /\ Len(content.lines) \in Nat /\ DOMAIN content.lines = 1..Len(content.lines)
      /\ Len(content.garnishes) \in Nat /\ DOMAIN content.garnishes = 1..Len(content.garnishes)
      /\ \A i \in DOMAIN content.lines : content.lines[i] \in Line
      /\ \A i \in DOMAIN content.garnishes : content.garnishes[i] \in Garnish
  BY <1>1, LenProperties, ElementOfSeq
<1> QED BY <1>2, <1>3

LEMMA ParametersTyped ==
    ASSUME NEW p, IsParameters(p)
    PROVE  /\ p.mode \in {"PORTIONS", "VOLUME_ML"} /\ p.target \in Positive /\ p.included # {}
           /\ \A u \in DOMAIN p.rounding : p.rounding[u] \in Positive
<1>1. /\ p.mode \in {"PORTIONS", "VOLUME_ML"} /\ p.target \in 1..MaxTarget("VOLUME_ML")
      /\ p.included # {} /\ IsRounding(p.rounding)
  BY DEF IsParameters
<1>2. p.target \in Positive
  BY <1>1 DEF Positive
<1>3. ASSUME NEW u \in DOMAIN p.rounding PROVE p.rounding[u] \in Positive
  <2>1. p.rounding[u] \in 1..MaxStep
    BY <1>1 DEF IsRounding
  <2> QED BY <2>1 DEF Positive
<1> QED BY <1>1, <1>2, <1>3

LEMMA FunctionTo ==
    ASSUME NEW n, NEW V, NEW s, s = [i \in 1..n |-> s[i]], \A i \in 1..n : s[i] \in V
    PROVE  s \in [1..n -> V]
OBVIOUS

LEMMA DecimalIs ==
    ASSUME NEW a \in Int
    PROVE  Decimal(a) = Fraction(a, 1000) /\ Decimal(a) \in Fractions
BY FractionTyped DEF Decimal, Positive

\* BaseOf adds the amounts of the included lines.
LEMMA BaseIs ==
    ASSUME NEW content, NEW p, IsContent(content)
    PROVE  \E b \in [0..Len(content.lines) -> Nat] :
              /\ b[0] = 0
              /\ \A i \in 1..Len(content.lines) :
                    b[i] = b[i - 1] + (IF i \in p.included THEN content.lines[i].amount ELSE 0)
              /\ BaseOf(content, p) = b[Len(content.lines)]
<1> DEFINE n == Len(content.lines)
           w == [i \in 1..n |-> IF i \in p.included THEN content.lines[i].amount ELSE 0]
           G == [x \in (1..n) \X Nat |-> x[2] + w[x[1]]]
           Rule(t) == [i \in 0..n |-> IF i = 0 THEN 0
                                      ELSE t[i - 1] + (IF i \in p.included THEN content.lines[i].amount ELSE 0)]
           sum == CHOOSE t : t = Rule(t)
<1>1. n \in Nat /\ w \in [1..n -> Nat]
  BY ContentTyped
<1>2. BaseOf(content, p) = sum[n]
  BY DEF BaseOf
<1>3. \A i \in 1..n : w[i] = IF i \in p.included THEN content.lines[i].amount ELSE 0
  OBVIOUS
<1> HIDE DEF n, w
<1>4. G \in [(1..n) \X Nat -> Nat]
  BY <1>1
<1>5. \E t : IsRun(t, n, Nat, 0, G)
  <2> HIDE DEF G
  <2> QED BY <1>1, <1>4, RunExists
<1>6. PICK t : t \in [0..n -> Nat] /\ t[0] = 0 /\ \A i \in 1..n : t[i] = G[<<i, t[i - 1]>>]
  <2> HIDE DEF G
  <2> QED BY <1>5 DEF IsRun
<1>7. \A i \in 1..n : t[i] = t[i - 1] + w[i]
  <2>1. \A i \in 1..n : G[<<i, t[i - 1]>>] = t[i - 1] + w[i]
    BY <1>1, <1>6
  <2> HIDE DEF G
  <2> QED BY <2>1, <1>6
<1>8. t = Rule(t)
  <2>1. \A i \in 0..n : t[i] = Rule(t)[i]
    BY <1>3, <1>6, <1>7
  <2>2. DOMAIN t = 0..n /\ t = [i \in 0..n |-> t[i]]
    BY <1>6
  <2> QED BY <2>1, <2>2
<1>9. sum = Rule(sum)
  <2> HIDE DEF Rule
  <2> QED BY <1>8
<1> HIDE DEF sum
<1>10. sum[0] = 0 /\ \A i \in 1..n : sum[i] = sum[i - 1] + w[i]
  BY <1>1, <1>3, <1>9
<1>11. sum \in [0..n -> Nat]
  <2> DEFINE S == {i \in 0..n : sum[i] \in Nat}
  <2>1. 0 \in S
    BY <1>1, <1>10
  <2>2. \A i \in 1..n : i - 1 \in S => i \in S
    BY <1>1, <1>10
  <2> HIDE DEF S
  <2>3. \A i \in 0..n : i \in S
    BY <1>1, <2>1, <2>2, Prefixes
  <2>4. \A i \in 0..n : sum[i] \in Nat
    BY <2>3 DEF S
  <2> QED BY <1>9, <2>4
<1> QED BY <1>2, <1>3, <1>10, <1>11 DEF n

\* The base of a portion, in thousandths.
LEMMA DoseIs ==
    ASSUME NEW content, NEW p, IsContent(content), IsParameters(p),
           p.included \subseteq DOMAIN content.lines, Measurable(content.lines, p.included)
    PROVE  BaseOf(content, p) \in Positive /\ Dose(content, p) = Fraction(BaseOf(content, p), 1000)
<1> DEFINE n == Len(content.lines)
           w == [i \in 1..n |-> IF i \in p.included THEN content.lines[i].amount ELSE 0]
           s == Chosen(p, [j \in DOMAIN content.lines |-> Decimal(content.lines[j].amount)])
<1>1. /\ n \in Nat /\ DOMAIN content.lines = 1..n /\ \A i \in 1..n : content.lines[i].amount \in Nat
      /\ 1000 \in Positive
  BY ContentTyped DEF Positive
<1>2. w \in [1..n -> Nat]
  BY <1>1
<1>3. s = [j \in 1..n |-> IF j \in p.included THEN Decimal(content.lines[j].amount) ELSE Zero]
  BY <1>1 DEF Chosen
<1>4. \A i \in 1..n : s[i] \in Fractions /\ s[i] = Fraction(w[i], 1000)
  BY <1>1, <1>3, DecimalIs, ZeroFacts
<1>5. s \in [1..n -> Fractions]
  <2>1. DOMAIN s = 1..n /\ s = [i \in 1..n |-> s[i]]
    BY <1>3
  <2> HIDE DEF s, n
  <2> QED BY <1>4, <2>1, FunctionTo
<1>6. Dose(content, p) = Total(s)
  BY DEF Dose
<1> HIDE DEF s
<1>7. PICK k \in 1..n : k \in p.included
  BY <1>1, ParametersTyped
<1>8. w[k] > 0
  BY <1>1, <1>2, <1>7 DEF Measurable
<1>9. PICK b \in [0..n -> Nat] :
        b[0] = 0 /\ (\A i \in 1..n : b[i] = b[i - 1] + w[i]) /\ BaseOf(content, p) = b[n]
  BY BaseIs
<1> HIDE DEF n, w, s
<1>10. PICK t \in [0..n -> Fractions] :
        t[0] = Zero /\ (\A i \in 1..n : t[i] = Plus(t[i - 1], s[i])) /\ Total(s) = t[n]
  BY <1>1, <1>5, TotalIs
<1> DEFINE S == {i \in 0..n : t[i] = Fraction(b[i], 1000) /\ (k <= i => b[i] > 0)}
<1>11. 0 \in S
  BY <1>1, <1>9, <1>10, ZeroFacts
<1>12. ASSUME NEW i \in 1..n, i - 1 \in S PROVE i \in S
  <2> DEFINE x == b[i - 1]
             y == w[i]
  <2>1. x \in Nat /\ y \in Nat /\ b[i] = x + y /\ t[i - 1] = Fraction(x, 1000) /\ s[i] = Fraction(y, 1000)
    <3>1. i - 1 \in 0..n /\ i \in 1..n
      BY <1>1
    <3>2. x \in Nat /\ y \in Nat /\ b[i] = x + y
      BY <1>1, <1>2, <1>9, <3>1
    <3>3. t[i - 1] = Fraction(x, 1000) /\ s[i] = Fraction(y, 1000)
      BY <1>4, <1>12, <3>1
    <3> QED BY <3>2, <3>3
  <2>2. t[i] = Plus(Fraction(x, 1000), Fraction(y, 1000))
    BY <1>10, <2>1
  <2>3. k <= i => b[i] > 0
    <3>1. k <= i - 1 => x > 0
      BY <1>12
    <3>2. k = i => y > 0
      BY <1>8
    <3>3. k <= i => k <= i - 1 \/ k = i
      BY <1>1, <1>7
    <3> HIDE DEF x, y
    <3> QED BY <2>1, <3>1, <3>2, <3>3
  <2> HIDE DEF x, y
  <2>4. Plus(Fraction(x, 1000), Fraction(y, 1000)) = Fraction(x * 1000 + y * 1000, 1000 * 1000)
    BY <1>1, <2>1, PlusFractions
  <2>5. x * 1000 + y * 1000 = 1000 * (x + y) /\ x + y \in Int
    BY <2>1
  <2>6. Fraction(1000 * (x + y), 1000 * 1000) = Fraction(x + y, 1000)
    BY <1>1, <2>5, FractionScales
  <2> QED BY <2>1, <2>2, <2>3, <2>4, <2>5, <2>6
<1> HIDE DEF S
<1>13. \A i \in 0..n : i \in S
  BY <1>1, <1>11, <1>12, Prefixes
<1>14. t[n] = Fraction(b[n], 1000) /\ b[n] > 0
  BY <1>1, <1>7, <1>13 DEF S
<1> QED BY <1>1, <1>6, <1>9, <1>10, <1>14 DEF Positive

\* The base is known when every included line is measured.
LEMMA DoseKnown ==
    ASSUME NEW content, NEW p, IsContent(content), IsParameters(p), p.included \subseteq DOMAIN content.lines
    PROVE  Dose(content, p) = Nothing <=> ~Measurable(content.lines, p.included)
<1>1. ASSUME Measurable(content.lines, p.included) PROVE Dose(content, p) \in [num : Int, den : Int]
  <2>1. Dose(content, p) \in Fractions
    BY <1>1, DoseIs, FractionTyped DEF Positive
  <2> QED BY <2>1 DEF Fractions, Positive
<1> QED BY <1>1, BatchAssumption DEF Dose

\* The multiplier: the target, or the target over the base.
LEMMA FactorIs ==
    ASSUME NEW content, NEW p, Calculable(content, p)
    PROVE  LET base == IF p.mode = "PORTIONS" THEN 1000 ELSE BaseOf(content, p)
           IN /\ base \in Positive /\ p.target \in Positive
              /\ Factor(content, p) = Fraction(p.target, base)
<1> DEFINE base == BaseOf(content, p)
<1>1. p.target \in Positive /\ p.target \in Int /\ 1000 \in Positive /\ Decimal(p.target) = Fraction(p.target, 1000)
  BY ParametersTyped DEF Calculable, Decimal, Positive
<1>2. CASE p.mode = "PORTIONS"
  BY <1>1, <1>2 DEF Factor
<1>3. CASE p.mode # "PORTIONS"
  <2>1. base \in Positive /\ Dose(content, p) = Fraction(base, 1000)
    BY <1>3, DoseIs, ParametersTyped DEF Calculable, Calculates, Accepts
  <2>2. Factor(content, p) = Over(Fraction(p.target, 1000), Fraction(base, 1000))
    BY <1>1, <1>3, <2>1 DEF Factor
  <2> HIDE DEF base
  <2>3. Over(Fraction(p.target, 1000), Fraction(base, 1000)) = Fraction(p.target * 1000, 1000 * base)
    BY <1>1, <2>1, OverFractions
  <2>4. p.target * 1000 = 1000 * p.target
    BY <1>1
  <2>5. Fraction(1000 * p.target, 1000 * base) = Fraction(p.target, base)
    BY <1>1, <2>1, FractionScales
  <2> QED BY <1>1, <1>3, <2>1, <2>2, <2>3, <2>4, <2>5 DEF base
<1> QED BY <1>2, <1>3

\* A line multiplied by a fraction.
LEMMA ExactIs ==
    ASSUME NEW line, line.amount \in Nat, NEW n \in Int, NEW d \in Positive, NEW factor, factor = Fraction(n, d)
    PROVE  /\ Exact(line, factor) \in Fractions
           /\ Exact(line, factor).num * (1000 * d) = (line.amount * n) * Exact(line, factor).den
<1>1. 1000 \in Positive /\ line.amount \in Int
  BY DEF Positive
<1>2. Exact(line, factor) = Fraction(line.amount * n, 1000 * d)
  BY <1>1, DecimalIs, TimesFractions DEF Exact
<1>3. line.amount * n \in Int /\ 1000 * d \in Positive
  BY <1>1, Products
<1> QED BY <1>2, <1>3, Parts

\* A rounded line is the nearest multiple of its step.
LEMMA RoundedIs ==
    ASSUME NEW line, NEW p, IsParameters(p), line.amount \in Nat, NEW factor \in Fractions
    PROVE  /\ Exact(line, factor) \in Fractions /\ Rounded(line, factor, p) \in Fractions
           /\ Known(line) /\ line.unit \in DOMAIN p.rounding =>
                 Nearest(Scale(line, factor, p), p.rounding[line.unit])
<1>1. Exact(line, factor) \in Fractions
  BY DecimalIs, Operations DEF Exact
<1>2. CASE line.unit \notin DOMAIN p.rounding
  BY <1>1, <1>2 DEF Rounded
<1>3. CASE line.unit \in DOMAIN p.rounding
  <2> DEFINE step == p.rounding[line.unit]
             f == Exact(line, factor)
             r == Round(f, Decimal(step))
             delta == Minus(r, f)
  <2>1. step \in Positive
    BY <1>3, ParametersTyped
  <2>2. Rounded(line, factor, p) = r
    BY <1>3 DEF Rounded
  <2>3. Known(line) => /\ Scale(line, factor, p).rounded = r
                       /\ Scale(line, factor, p).delta = delta
    BY <2>2 DEF Scale
  <2>4. f \in Fractions
    BY <1>1
  <2> HIDE DEF step, f
  <2>5. /\ r \in Fractions /\ (r.num * 1000) % (r.den * step) = 0
        /\ 2000 * delta.num <= step * delta.den
        /\ -2000 * delta.num < step * delta.den
    BY <2>1, <2>4, RoundIs
  <2> HIDE DEF r, delta
  <2>6. Known(line) => Nearest(Scale(line, factor, p), step)
    BY <2>3, <2>5 DEF Nearest
  <2> QED BY <1>1, <2>2, <2>5, <2>6 DEF step
<1> QED BY <1>2, <1>3

----------------------------------------------------------------------------
LEMMA FactorFacts ==
    ASSUME NEW content, NEW p, Calculable(content, p)
    PROVE  Factor(content, p) \in Fractions /\ Factor(content, p).num > 0
<1> DEFINE base == IF p.mode = "PORTIONS" THEN 1000 ELSE BaseOf(content, p)
<1>1. base \in Positive /\ p.target \in Positive /\ Factor(content, p) = Fraction(p.target, base)
  BY FactorIs
<1> HIDE DEF base
<1>2. p.target \in Int /\ p.target > 0
  BY <1>1 DEF Positive
<1> QED BY <1>1, <1>2, FractionTyped, SignOfFraction

\* A line scaled by the target is exact, and a positive quantity.
LEMMA ScaledIs ==
    ASSUME NEW content, NEW p, Calculable(content, p), NEW line, line.amount \in Nat
    PROVE  LET exact == Exact(line, Factor(content, p))
           IN /\ ExactInBase(content, p, line, exact)
              /\ line.amount > 0 => exact.num > 0
<1> DEFINE base == IF p.mode = "PORTIONS" THEN 1000 ELSE BaseOf(content, p)
           exact == Exact(line, Factor(content, p))
           a == line.amount
           t == p.target
<1>1. /\ base \in Positive /\ t \in Positive /\ t \in Int /\ base \in Int /\ a \in Nat
      /\ Factor(content, p) = Fraction(t, base)
  BY FactorIs DEF Positive
<1>2. ExactInBase(content, p, line, exact) <=> exact.num * base * 1000 = exact.den * a * t
  BY DEF ExactInBase
<1> HIDE DEF base, t
<1>3. exact \in Fractions /\ exact.num * (1000 * base) = (a * t) * exact.den
  BY <1>1, ExactIs
<1> HIDE DEF exact
<1> DEFINE n == exact.num
           d == exact.den
<1>4. n \in Int /\ d \in Positive /\ d \in Int /\ n * (1000 * base) = (a * t) * d
  BY <1>3, FractionItself DEF Positive
<1> HIDE DEF n, d, a
<1>5. n * base * 1000 = d * a * t
  <2>1. n * base * 1000 = n * (1000 * base) /\ d * a * t = (a * t) * d
    BY <1>1, <1>4
  <2> QED BY <1>4, <2>1
<1>6. a > 0 => n > 0
  <2> SUFFICES ASSUME a > 0 PROVE n > 0
    OBVIOUS
  <2>1. a \in Positive /\ a * t \in Positive /\ (a * t) * d \in Positive /\ 1000 * base \in Positive
    <3>1. a \in Positive /\ 1000 \in Positive
      BY <1>1 DEF Positive
    <3> QED BY <1>1, <1>4, <3>1, Products
  <2> DEFINE k == 1000 * base
  <2>2. k \in Positive /\ k \in Int /\ n * k > 0
    BY <1>4, <2>1 DEF Positive
  <2> HIDE DEF k
  <2>3. k * n > 0
    BY <1>4, <2>2
  <2> QED BY <1>4, <2>2, <2>3, SignOfFactor
<1> QED BY <1>2, <1>5, <1>6 DEF n, d, a, exact

\* The lines of a base that is measured, rounded, and what they make.
Measure(content, p) == [j \in DOMAIN content.lines |-> Rounded(content.lines[j], Factor(content, p), p)]
Doses(content)      == [j \in DOMAIN content.lines |-> Decimal(content.lines[j].amount)]

LEMMA ChosenTyped ==
    ASSUME NEW p, NEW n \in Nat, NEW q \in [1..n -> Fractions]
    PROVE  /\ Chosen(p, q) \in [1..n -> Fractions]
           /\ \A i \in 1..n : Chosen(p, q)[i] = IF i \in p.included THEN q[i] ELSE Zero
BY ZeroFacts DEF Chosen

LEMMA MeasureTyped ==
    ASSUME NEW content, NEW p, Calculable(content, p)
    PROVE  /\ Measure(content, p) \in [1..Len(content.lines) -> Fractions]
           /\ Doses(content) \in [1..Len(content.lines) -> Fractions]
           /\ Chosen(p, Measure(content, p)) \in [1..Len(content.lines) -> Fractions]
           /\ Chosen(p, Doses(content)) \in [1..Len(content.lines) -> Fractions]
<1> DEFINE n == Len(content.lines)
<1>1. /\ n \in Nat /\ DOMAIN content.lines = 1..n /\ \A i \in 1..n : content.lines[i].amount \in Nat
      /\ IsParameters(p) /\ Factor(content, p) \in Fractions
  BY ContentTyped, FactorFacts DEF Calculable
<1> HIDE DEF n
<1>2. \A i \in 1..n : Rounded(content.lines[i], Factor(content, p), p) \in Fractions
  BY <1>1, RoundedIs
<1>3. \A i \in 1..n : Decimal(content.lines[i].amount) \in Fractions
  BY <1>1, DecimalIs
<1>4. Measure(content, p) \in [1..n -> Fractions]
  BY <1>1, <1>2 DEF Measure
<1>5. Doses(content) \in [1..n -> Fractions]
  BY <1>1, <1>3 DEF Doses
<1> QED BY <1>1, <1>4, <1>5, ChosenTyped DEF n

LEMMA Parameterised ==
    ASSUME NEW content, NEW p, Calculable(content, p)
    PROVE  /\ IsContent(content) /\ IsParameters(p) /\ p.included \subseteq DOMAIN content.lines
           /\ p.mode = "VOLUME_ML" => Measurable(content.lines, p.included)
BY DEF Calculable, Calculates, Accepts

\* The measured volume is a positive quantity.
LEMMA VolumeIs ==
    ASSUME NEW content, NEW p, Calculable(content, p), Measurable(content.lines, p.included)
    PROVE  /\ Volume(content, p) = Total(Chosen(p, Measure(content, p)))
           /\ Volume(content, p) \in Fractions /\ Volume(content, p).num > 0
<1> DEFINE n == Len(content.lines)
           s == Chosen(p, Measure(content, p))
           factor == Factor(content, p)
<1>1. Volume(content, p) = Total(s)
  BY DoseKnown, Parameterised DEF Volume, Measure
<1>2. /\ n \in Nat /\ DOMAIN content.lines = 1..n /\ p.included \subseteq 1..n /\ p.included # {}
      /\ \A i \in 1..n : content.lines[i].amount \in Nat
  BY ContentTyped, Parameterised, ParametersTyped
<1>3. /\ s \in [1..n -> Fractions]
      /\ \A i \in 1..n : s[i] = IF i \in p.included THEN Rounded(content.lines[i], factor, p) ELSE Zero
  <2> DEFINE q == Measure(content, p)
  <2>1. q \in [1..n -> Fractions]
    BY MeasureTyped
  <2>2. \A i \in 1..n : q[i] = Rounded(content.lines[i], factor, p)
    BY <1>2 DEF Measure
  <2> HIDE DEF q, n
  <2>3. /\ Chosen(p, q) \in [1..n -> Fractions]
        /\ \A i \in 1..n : Chosen(p, q)[i] = IF i \in p.included THEN q[i] ELSE Zero
    BY <1>2, <2>1, ChosenTyped
  <2> QED BY <2>2, <2>3 DEF q
<1>4. ASSUME NEW i \in p.included
      PROVE  Rounded(content.lines[i], factor, p).num > 0
  <2>1. Known(content.lines[i]) /\ content.lines[i].amount > 0
    BY <1>2 DEF Measurable, Known
  <2>2. Exact(content.lines[i], factor).num > 0
    BY <1>2, <2>1, ScaledIs
  <2>3. Scales(content.lines[i], factor, p)
    BY <1>2 DEF Calculable, Calculates, FactorOf
  <2> QED BY <2>1, <2>2, <2>3 DEF Scales
<1>5. \A i \in 1..n : s[i].num >= 0
  <2> TAKE i \in 1..n
  <2>1. s[i].num \in Int
    BY <1>3, FractionItself
  <2> HIDE DEF s
  <2> QED BY <1>3, <1>4, <2>1, ZeroFacts
<1>6. PICK k \in 1..n : k \in p.included
  BY <1>2
<1>7. s[k].num > 0
  BY <1>3, <1>4, <1>6
<1> HIDE DEF s, n
<1>8. Total(s) \in Fractions /\ Total(s).num > 0
  BY <1>2, <1>3, <1>5, <1>6, <1>7, SignOfTotal, TotalIsFraction
<1> QED BY <1>1, <1>8 DEF s

\* The portions are a whole number: of a measured base, what its volume serves.
LEMMA PortionsAre ==
    ASSUME NEW content, NEW p, Calculable(content, p)
    PROVE  /\ Portions(content, p) \in Int
           /\ Measurable(content.lines, p.included) =>
                LET volume == Volume(content, p)
                IN Portions(content, p) = (volume.num * 1000) \div (volume.den * BaseOf(content, p))
<1>1. CASE ~Measurable(content.lines, p.included)
  <2>1. Portions(content, p) = Floor(Factor(content, p))
    BY <1>1, Parameterised, DoseKnown DEF Portions
  <2>2. Factor(content, p).num \in Int /\ Factor(content, p).den \in Positive
    BY FactorFacts, FractionItself
  <2> QED BY <1>1, <2>1, <2>2, Division DEF Floor
<1>2. CASE Measurable(content.lines, p.included)
  <2> DEFINE v == Volume(content, p)
             base == BaseOf(content, p)
  <2>1. base \in Positive /\ Dose(content, p) = Fraction(base, 1000) /\ 1000 \in Positive
    BY <1>2, Parameterised, DoseIs DEF Positive
  <2>2. v.num \in Int /\ v.den \in Positive /\ v = Fraction(v.num, v.den)
    BY <1>2, VolumeIs, FractionItself
  <2>3. Portions(content, p) = Floor(Over(v, Dose(content, p)))
    BY <1>2, Parameterised, DoseKnown DEF Portions
  <2> HIDE DEF v, base
  <2>4. Over(v, Dose(content, p)) = Fraction(v.num * 1000, v.den * base)
    BY <2>1, <2>2, OverFractions
  <2> DEFINE n == v.num * 1000
             d == v.den * base
  <2>5. n \in Int /\ d \in Positive
    BY <2>1, <2>2, Products
  <2> HIDE DEF n, d
  <2>6. Floor(Fraction(n, d)) = n \div d /\ n \div d \in Int
    BY <2>5, FloorOfFraction, Division
  <2> QED BY <2>3, <2>4, <2>6 DEF v, base, n, d
<1> QED BY <1>1, <1>2

\* What stays at service is scaled exactly to the portions.
LEMMA ServedExactly ==
    ASSUME NEW content, NEW p, Calculable(content, p), NEW line, line.amount \in Nat
    PROVE  ExactAtService(content, p, line, Exact(line, ServiceFactor(content, p)))
<1> DEFINE exact == Exact(line, ServiceFactor(content, p))
           k == Portions(content, p)
<1>1. CASE p.mode = "PORTIONS"
  BY <1>1, ScaledIs DEF ServiceFactor, ExactAtService
<1>2. CASE p.mode # "PORTIONS"
  <2>1. p.mode = "VOLUME_ML"
    BY <1>2, Parameterised, ParametersTyped
  <2>2. ServiceFactor(content, p) = Whole(k)
    BY <2>1 DEF ServiceFactor
  <2>3. ExactAtService(content, p, line, exact) <=> exact.num * 1000 = exact.den * line.amount * k
    BY <1>2 DEF ExactAtService
  <2>4. k \in Int /\ 1 \in Positive
    BY PortionsAre DEF Positive
  <2> HIDE DEF k
  <2>5. exact \in Fractions /\ exact.num * (1000 * 1) = (line.amount * k) * exact.den
    BY <2>2, <2>4, WholeFraction, ExactIs
  <2> HIDE DEF exact
  <2>6. exact.num \in Int /\ exact.den \in Int
    BY <2>5, FractionItself DEF Positive
  <2>7. exact.num * 1000 = exact.den * line.amount * k
    <3>1. (line.amount * k) * exact.den = exact.den * line.amount * k
      BY <2>4, <2>6
    <3> QED BY <2>5, <3>1
  <2> QED BY <2>3, <2>7 DEF exact, k
<1> QED BY <1>1, <1>2

LEMMA ServiceTyped ==
    ASSUME NEW content, NEW p, Calculable(content, p)
    PROVE  /\ ServiceFactor(content, p) \in Fractions
           /\ \A i : FactorOf(content, p, i) \in Fractions
BY FactorFacts, PortionsAre, WholeFraction DEF ServiceFactor, FactorOf

\* The volume over the base of a portion: whole portions, and what is left.
LEMMA RemainderIs ==
    ASSUME NEW v \in Fractions, NEW base \in Positive
    PROVE  LET portions == (v.num * 1000) \div (v.den * base)
               left == v.num * 1000 - portions * base * v.den
               remaining == Minus(v, Times(Fraction(base, 1000), Whole(portions)))
           IN /\ 0 <= left /\ left < base * v.den
              /\ remaining.num * 1000 * v.den = remaining.den * left
<1> DEFINE n == v.num
           d == v.den
           k == (n * 1000) \div (d * base)
           rem == (n * 1000) % (d * base)
           left == n * 1000 - k * base * d
           remaining == Minus(v, Times(Fraction(base, 1000), Whole(k)))
<1>1. /\ n \in Int /\ d \in Positive /\ d \in Int /\ base \in Int /\ v = Fraction(n, d)
      /\ 1000 \in Positive /\ 1 \in Positive
  BY FractionItself DEF Positive
<1> HIDE DEF n, d
<1>2. d * base \in Positive /\ n * 1000 \in Int
  BY <1>1, Products
<1>3. k \in Int /\ rem \in Nat /\ rem < d * base /\ n * 1000 = (d * base) * k + rem
  BY <1>2, Division
<1> HIDE DEF k, rem
<1>4. left = rem
  <2>1. k * base * d = (d * base) * k /\ (d * base) * k \in Int
    BY <1>1, <1>3
  <2> QED BY <1>1, <1>3, <2>1
<1>5. 0 <= left /\ left < base * d
  <2>1. d * base = base * d
    BY <1>1
  <2> QED BY <1>1, <1>3, <1>4, <2>1
<1>6. Times(Fraction(base, 1000), Whole(k)) = Fraction(base * k, 1000)
  <2>1. Times(Fraction(base, 1000), Fraction(k, 1)) = Fraction(base * k, 1000 * 1)
    BY <1>1, <1>3, TimesFractions
  <2> QED BY <1>3, <2>1, WholeFraction
<1>7. remaining = Fraction(left, d * 1000)
  <2> DEFINE m == base * k
  <2>1. m \in Int
    BY <1>1, <1>3
  <2>2. n * 1000 - m * d = left
    BY <1>1, <1>3
  <2>3. Minus(v, Fraction(m, 1000)) = Fraction(n * 1000 - m * d, d * 1000)
    <3> HIDE DEF m
    <3> QED BY <1>1, <2>1, MinusFractions
  <2> QED BY <1>6, <2>2, <2>3
<1>8. /\ remaining.num \in Int /\ remaining.den \in Int
      /\ remaining.num * (d * 1000) = left * remaining.den
  <2> DEFINE e == d * 1000
  <2>1. e \in Positive /\ left \in Int
    BY <1>1, <1>3, <1>4, Products
  <2> HIDE DEF e, left
  <2>2. /\ Fraction(left, e).num \in Int /\ Fraction(left, e).den \in Int
        /\ Fraction(left, e).num * e = left * Fraction(left, e).den
    BY <2>1, Parts
  <2> QED BY <1>7, <2>2 DEF e
<1>9. left \in Int
  BY <1>3, <1>4
<1> HIDE DEF left, remaining
<1>10. remaining.num * 1000 * d = remaining.den * left
  <2>1. remaining.num * 1000 * d = remaining.num * (d * 1000) /\ left * remaining.den = remaining.den * left
    BY <1>1, <1>8, <1>9
  <2> QED BY <1>8, <2>1
<1> QED BY <1>5, <1>10 DEF n, d, k, left, remaining

\* A volume differs from its target by the roundings of its lines.
LEMMA DifferenceIs ==
    ASSUME NEW content, NEW p, Calculable(content, p), p.mode = "VOLUME_ML"
    PROVE  Minus(Volume(content, p), Decimal(p.target))
              = Total(Chosen(p, [i \in DOMAIN content.lines |->
                         Scale(content.lines[i], FactorOf(content, p, i), p).delta]))
<1> DEFINE n == Len(content.lines)
           factor == Factor(content, p)
           s == Chosen(p, Measure(content, p))
           a == Chosen(p, Doses(content))
           e == [i \in 1..n |-> Times(a[i], factor)]
           deltas == [i \in DOMAIN content.lines |-> Scale(content.lines[i], FactorOf(content, p, i), p).delta]
           d == Chosen(p, deltas)
<1>1. /\ IsContent(content) /\ IsParameters(p) /\ p.included \subseteq DOMAIN content.lines
      /\ Measurable(content.lines, p.included)
      /\ n \in Nat /\ DOMAIN content.lines = 1..n /\ factor \in Fractions
  BY Parameterised, ContentTyped, FactorFacts
<1>2. s \in [1..n -> Fractions] /\ a \in [1..n -> Fractions]
  BY MeasureTyped
<1>3. \A i \in 1..n : s[i] = IF i \in p.included THEN Rounded(content.lines[i], factor, p) ELSE Zero
  BY <1>1 DEF Chosen, Measure
<1>4. \A i \in 1..n : a[i] = IF i \in p.included THEN Decimal(content.lines[i].amount) ELSE Zero
  BY <1>1 DEF Chosen, Doses
<1>5. /\ DOMAIN d = 1..n /\ d = [i \in 1..n |-> d[i]]
      /\ \A i \in 1..n : d[i] = IF i \in p.included
                                THEN Scale(content.lines[i], FactorOf(content, p, i), p).delta ELSE Zero
  BY <1>1 DEF Chosen
<1>6. ASSUME NEW i \in 1..n
      PROVE  d[i] = Minus(s[i], e[i]) /\ e[i] \in Fractions /\ d[i] \in Fractions
  <2>1. e[i] = Times(a[i], factor) /\ a[i] \in Fractions /\ s[i] \in Fractions
    BY <1>2
  <2>2. e[i] \in Fractions
    BY <1>1, <2>1, Operations
  <2>3. CASE i \in p.included
    <3>1. Known(content.lines[i])
      BY <1>1, <2>3 DEF Measurable, Known
    <3>2. FactorOf(content, p, i) = factor
      BY <2>3 DEF FactorOf
    <3>3. e[i] = Exact(content.lines[i], factor)
      BY <1>4, <2>1, <2>3 DEF Exact
    <3>4. Scale(content.lines[i], FactorOf(content, p, i), p).delta
             = Minus(Rounded(content.lines[i], factor, p), Exact(content.lines[i], factor))
      BY <3>1, <3>2 DEF Scale
    <3>5. d[i] = Minus(s[i], e[i])
      BY <1>3, <1>5, <2>3, <3>3, <3>4
    <3> QED BY <2>1, <2>2, <3>5, Operations
  <2>4. CASE i \notin p.included
    <3>1. a[i] = Zero /\ s[i] = Zero /\ d[i] = Zero
      BY <1>3, <1>4, <1>5, <2>4
    <3>2. e[i] = Zero
      BY <1>1, <2>1, <3>1, ZeroFacts
    <3> QED BY <3>1, <3>2, ZeroFacts
  <2> QED BY <2>3, <2>4
<1>7. e \in [1..n -> Fractions] /\ \A i \in 1..n : e[i] = Times(a[i], factor)
  BY <1>6
<1>8. Volume(content, p) = Total(s)
  BY <1>1, VolumeIs
<1>9. Total(a) = Dose(content, p)
  BY <1>1 DEF Dose, Doses
<1>10. Times(Dose(content, p), factor) = Decimal(p.target)
  <2> DEFINE base == BaseOf(content, p)
             t == p.target
  <2>1. /\ base \in Positive /\ base \in Int /\ t \in Positive /\ t \in Int /\ 1000 \in Positive
        /\ Dose(content, p) = Fraction(base, 1000) /\ factor = Fraction(t, base)
    BY <1>1, DoseIs, FactorIs DEF Positive
  <2>2. Decimal(t) = Fraction(t, 1000)
    BY <2>1, DecimalIs
  <2> HIDE DEF base, t, factor
  <2>3. Times(Fraction(base, 1000), Fraction(t, base)) = Fraction(base * t, 1000 * base)
    BY <2>1, TimesFractions
  <2>4. 1000 * base = base * 1000
    BY <2>1
  <2>5. Fraction(base * t, base * 1000) = Fraction(t, 1000)
    BY <2>1, FractionScales
  <2> QED BY <2>1, <2>2, <2>3, <2>4, <2>5 DEF t
<1> HIDE DEF n, s, a, e, d, factor
<1>11. d \in [1..n -> Fractions]
  <2>1. d = [i \in 1..n |-> d[i]]
    BY <1>5
  <2>2. \A i \in 1..n : d[i] \in Fractions
    BY <1>6
  <2> QED BY <2>1, <2>2, FunctionTo
<1>12. Total(d) = Minus(Total(s), Total(e))
  <2>1. \A i \in 1..n : d[i] = Minus(s[i], e[i])
    BY <1>6
  <2>2. n \in Nat /\ s \in [1..n -> Fractions] /\ e \in [1..n -> Fractions]
    BY <1>1, <1>2, <1>7
  <2> QED BY <1>11, <2>1, <2>2, TotalOfDifferences
<1>13. Total(e) = Times(Total(a), factor)
  BY <1>1, <1>2, <1>7, TotalOfMultiples
<1> QED BY <1>8, <1>9, <1>10, <1>12, <1>13 DEF d

\* The shares of the measured lines make a whole.
LEMMA RatiosMakeOne ==
    ASSUME NEW content, NEW p, Calculable(content, p), Measurable(content.lines, p.included)
    PROVE  Total(Chosen(p, [i \in DOMAIN content.lines |-> Ratio(content, p, i)])) = Whole(1)
<1> DEFINE n == Len(content.lines)
           factor == Factor(content, p)
           s == Chosen(p, Measure(content, p))
           v == Volume(content, p)
           inverse == Over(Whole(1), v)
           r == Chosen(p, [i \in DOMAIN content.lines |-> Ratio(content, p, i)])
<1>1. /\ p.included \subseteq 1..n /\ n \in Nat /\ DOMAIN content.lines = 1..n /\ factor \in Fractions
      /\ \A j \in p.included : Known(content.lines[j]) /\ content.lines[j].unit = "ML" /\ content.lines[j].amount # 0
  BY Parameterised, ContentTyped, FactorFacts DEF Measurable, Known
<1>2. s \in [1..n -> Fractions] /\ v = Total(s) /\ v \in Fractions /\ v.num > 0
  BY MeasureTyped, VolumeIs
<1>3. \A i \in 1..n : s[i] = IF i \in p.included THEN Rounded(content.lines[i], factor, p) ELSE Zero
  BY <1>1 DEF Chosen, Measure
<1>4. v.num \in Positive /\ v.den \in Positive /\ v.den \in Int /\ v = Fraction(v.num, v.den)
  BY <1>2, FractionItself DEF Positive
<1>5. inverse = Fraction(v.den, v.num) /\ inverse \in Fractions
  <2>1. 1 \in Int /\ 1 \in Positive /\ Whole(1) = Fraction(1, 1)
    BY WholeFraction DEF Positive
  <2> HIDE DEF v
  <2>2. Over(Fraction(1, 1), Fraction(v.num, v.den)) = Fraction(1 * v.den, 1 * v.num)
    BY <1>4, <2>1, OverFractions
  <2>3. 1 * v.den = v.den /\ 1 * v.num = v.num
    BY <1>4 DEF Positive
  <2>4. inverse = Fraction(v.den, v.num)
    BY <1>4, <2>1, <2>2, <2>3
  <2> QED BY <1>4, <2>4, FractionTyped
<1>6. ASSUME NEW x \in Fractions
      PROVE  Over(x, v) = Times(x, inverse)
  <2>1. x.num \in Int /\ x.den \in Positive /\ x = Fraction(x.num, x.den)
    BY FractionItself
  <2> HIDE DEF v, inverse
  <2>2. Times(Fraction(x.num, x.den), Fraction(v.den, v.num)) = Fraction(x.num * v.den, x.den * v.num)
    BY <1>4, <2>1, TimesFractions
  <2>3. Over(x, v) = Fraction(x.num * v.den, x.den * v.num)
    BY DEF Over
  <2> QED BY <1>5, <2>1, <2>2, <2>3
<1>7. ASSUME NEW i \in p.included
      PROVE  Ratio(content, p, i) = Over(Rounded(content.lines[i], factor, p), v)
  <2> DEFINE alike == {j \in p.included : content.lines[j].unit = content.lines[i].unit}
             q == [j \in DOMAIN content.lines |->
                     IF j \in alike /\ Known(content.lines[j]) THEN Rounded(content.lines[j], factor, p) ELSE Zero]
  <2>1. alike = p.included
    BY <1>1
  <2>2. Chosen(p, q) = s
    BY <1>1, <2>1 DEF Chosen, Measure
  <2>3. \A j \in alike : content.lines[j].amount # 0
    BY <1>1
  <2>4. Ratio(content, p, i) = Over(Rounded(content.lines[i], factor, p), Total(Chosen(p, q)))
    BY <1>1, <2>3 DEF Ratio
  <2> QED BY <1>2, <2>2, <2>4
<1>8. /\ DOMAIN r = 1..n /\ r = [i \in 1..n |-> r[i]]
      /\ \A i \in 1..n : r[i] = IF i \in p.included THEN Ratio(content, p, i) ELSE Zero
  BY <1>1 DEF Chosen
<1> HIDE DEF n, factor, s, v, inverse, r
<1>9. ASSUME NEW i \in 1..n
      PROVE  r[i] = Times(s[i], inverse) /\ r[i] \in Fractions
  <2>1. s[i] \in Fractions
    BY <1>2
  <2>2. r[i] = Times(s[i], inverse)
    BY <1>3, <1>5, <1>6, <1>7, <1>8, <2>1, ZeroFacts
  <2> QED BY <1>5, <2>1, <2>2, Operations
<1>10. r \in [1..n -> Fractions]
  BY <1>8, <1>9, FunctionTo
<1>11. Total(r) = Times(v, inverse)
  BY <1>1, <1>2, <1>5, <1>9, <1>10, TotalOfMultiples
<1>12. Times(v, inverse) = Whole(1)
  <2>1. v.num \in Int /\ 1 \in Int /\ 1 \in Positive
    BY <1>4 DEF Positive
  <2>2. Times(v, inverse) = Fraction(v.num * v.den, v.den * v.num)
    BY <1>4, <1>5, <2>1, TimesFractions
  <2>3. (v.num * v.den) * 1 = 1 * (v.den * v.num) /\ v.num * v.den \in Int
    BY <1>4, <2>1
  <2>4. v.den * v.num \in Positive
    BY <1>4, Products
  <2>5. Fraction(v.num * v.den, v.den * v.num) = Fraction(1, 1)
    BY <2>1, <2>3, <2>4, OneFraction
  <2> QED BY <2>1, <2>2, <2>5, WholeFraction
<1> QED BY <1>11, <1>12 DEF r

LEMMA ScaleIs ==
    ASSUME NEW line, Known(line), NEW factor, NEW p
    PROVE  Scale(line, factor, p).exact = Exact(line, factor)
BY DEF Scale

\* Every calculation that is accepted, of any content and any parameters, is
\* exact: each line is the amount of the recipe scaled once and moved to the
\* nearest multiple of its step, the portions are those the rounded base can
\* serve, and the shares make a whole.
THEOREM CalculationIsExact ==
    ASSUME NEW content, NEW p, Calculable(content, p)
    PROVE  Exactly(content, p)
<1> DEFINE r == Calculation(content, p)
           lines == content.lines
           garnishes == content.garnishes
<1>1. /\ \A i \in DOMAIN lines : lines[i].amount \in Nat
      /\ \A i \in DOMAIN garnishes : garnishes[i].amount \in Nat
      /\ IsContent(content) /\ IsParameters(p) /\ p.included \subseteq DOMAIN lines
  BY Parameterised, ContentTyped
<1>2. /\ \A i \in DOMAIN lines : r.lines[i] = Scale(lines[i], FactorOf(content, p, i), p)
      /\ \A i \in DOMAIN garnishes : r.garnishes[i] = Scale(garnishes[i], ServiceFactor(content, p), p)
      /\ r.ratios = [i \in DOMAIN lines |-> Ratio(content, p, i)]
      /\ r.portions = Portions(content, p) /\ r.volume = Volume(content, p)
      /\ Dose(content, p) # Nothing =>
            r.remaining = Minus(Volume(content, p), Times(Dose(content, p), Whole(Portions(content, p))))
      /\ p.mode = "VOLUME_ML" => r.difference = Minus(Volume(content, p), Decimal(p.target))
  BY DEF Calculation
<1>3. \A i \in DOMAIN lines : r.lines[i].delta = Scale(lines[i], FactorOf(content, p, i), p).delta
  BY <1>2
<1> HIDE DEF r
<1>4. ASSUME NEW i \in DOMAIN lines, Known(lines[i])
      PROVE  IF i \in p.included THEN ExactInBase(content, p, lines[i], r.lines[i].exact)
             ELSE ExactAtService(content, p, lines[i], r.lines[i].exact)
  <2>1. r.lines[i].exact = Exact(lines[i], FactorOf(content, p, i))
    BY <1>2, <1>4, ScaleIs
  <2> QED BY <1>1, <2>1, ScaledIs, ServedExactly DEF FactorOf
<1>5. ASSUME NEW i \in DOMAIN garnishes, Known(garnishes[i])
      PROVE  ExactAtService(content, p, garnishes[i], r.garnishes[i].exact)
  <2>1. r.garnishes[i].exact = Exact(garnishes[i], ServiceFactor(content, p))
    BY <1>2, <1>5, ScaleIs
  <2> QED BY <1>1, <2>1, ServedExactly
<1>6. ASSUME NEW i \in DOMAIN lines, Known(lines[i]), lines[i].unit \in DOMAIN p.rounding
      PROVE  Nearest(r.lines[i], p.rounding[lines[i].unit])
  BY <1>1, <1>2, <1>6, ServiceTyped, RoundedIs
<1>7. ASSUME NEW i \in DOMAIN garnishes, Known(garnishes[i]), garnishes[i].unit \in DOMAIN p.rounding
      PROVE  Nearest(r.garnishes[i], p.rounding[garnishes[i].unit])
  BY <1>1, <1>2, <1>7, ServiceTyped, RoundedIs
<1>8. ASSUME Measurable(lines, p.included)
      PROVE  VolumeAddsUp(content, p)
  <2> DEFINE v == Volume(content, p)
             base == BaseOf(content, p)
             k == Portions(content, p)
             left == v.num * 1000 - k * base * v.den
             deltas == [i \in DOMAIN lines |-> Scale(lines[i], FactorOf(content, p, i), p).delta]
  <2>1. /\ base \in Positive /\ Dose(content, p) = Fraction(base, 1000) /\ Dose(content, p) # Nothing
        /\ v \in Fractions /\ k = (v.num * 1000) \div (v.den * base)
    BY <1>1, <1>8, DoseIs, DoseKnown, VolumeIs, PortionsAre
  <2>2. r.remaining = Minus(v, Times(Fraction(base, 1000), Whole(k)))
    BY <1>2, <2>1
  <2>3. /\ 0 <= left /\ left < base * v.den
        /\ r.remaining.num * 1000 * v.den = r.remaining.den * left
    <3> HIDE DEF v, base, k
    <3> QED BY <2>1, <2>2, RemainderIs
  <2>4. [i \in DOMAIN lines |-> r.lines[i].delta] = deltas
    BY <1>3
  <2>5. p.mode = "VOLUME_ML" => r.difference = Total(Chosen(p, deltas))
    BY <1>2, DifferenceIs
  <2> QED BY <1>2, <2>3, <2>4, <2>5 DEF VolumeAddsUp, r
<1>9. Measurable(lines, p.included) => Total(Chosen(p, r.ratios)) = Whole(1)
  BY <1>2, RatiosMakeOne
<1> QED BY <1>4, <1>5, <1>6, <1>7, <1>8, <1>9 DEF Exactly, r

----------------------------------------------------------------------------
\* Whatever recipes, other members, retries and late requests do meanwhile, a
\* plan, the requests about it and the pages that show it stay consistent: the
\* invariant the properties of the plans follow from.
THEOREM BatchInvariant == BatchSpec => []BatchInv
<1>1. BatchInit => BatchInv
  BY BatchStarts
<1>2. BatchInv /\ [BatchNext]_batchVars => BatchInv'
  BY BatchStep
<1> QED BY <1>1, <1>2, PTL DEF BatchSpec

\* Every plan, revisions included, holds the content and the parameters whose
\* quantities its author was shown before saving them.
THEOREM PlansFollowPreviews == BatchSpec => []PlansAreAsPreviewed
<1>1. BatchInv => PlansAreAsPreviewed
  BY DEF BatchInv, RowOK, PlansAreAsPreviewed
<1> QED BY <1>1, BatchInvariant, PTL

\* A plan that is not flagged as made from another version of its recipe holds
\* the present content of that recipe.
THEOREM UnflaggedPlansStayCurrent == BatchSpec => []UnflaggedPlansAreCurrent
<1>1. BatchInv => UnflaggedPlansAreCurrent
  BY DEF BatchInv, RowOK, UnflaggedPlansAreCurrent
<1> QED BY <1>1, BatchInvariant, PTL

\* A plan holds a content the arithmetic applies to.
LEMMA PlanContent ==
    ASSUME BatchInv, NEW k \in Keys, plan[k] # Nothing
    PROVE  /\ IsContent(plan[k].snapshot) /\ IsParameters(plan[k].params)
           /\ Calculates(plan[k].snapshot, plan[k].params)
<1> DEFINE content == plan[k].snapshot
           Line == [slug : Slugs, amount : Nat, unit : Units, override : Degrees, unknown : BOOLEAN]
           Garnish == [slug : Slugs, amount : Nat, unit : Units]
<1>1. content \in ContentType /\ plan[k].params \in Parameters /\ Calculates(content, plan[k].params)
  BY DEF BatchInv, RowOK, PlanRows
<1>2. content.lines \in Seq(StoredType) /\ content.garnishes \in Seq(GarnishType)
  BY <1>1 DEF ContentType
<1>3. StoredType \subseteq Line /\ GarnishType \subseteq Garnish
  BY DEF StoredType, GarnishType
<1> HIDE DEF Line, Garnish, content
<1>4. content.lines \in Seq(Line) /\ content.garnishes \in Seq(Garnish)
  BY <1>2, <1>3, SeqMonotonic
<1> QED BY <1>1, <1>4, PlansAssumption DEF IsContent, Line, Garnish, content

\* Every sample that calculates is exact, and a recorded plan always calculates:
\* it can be read again, in every version.
THEOREM CalculationsStayExact == BatchSpec => []CalculationsAreExact
<1>1. Inexact = {}
  BY BatchAssumption, CalculationIsExact DEF Inexact, Calculable
<1>2. BatchInv => CalculationsAreExact
  BY <1>1, PlanContent DEF CalculationsAreExact
<1> QED BY <1>2, BatchInvariant, PTL

PlansAreExact == \A k \in Keys : plan[k] # Nothing => Exactly(plan[k].snapshot, plan[k].params)

\* The quantities of a recorded plan are exact, whatever recipe it was made from
\* and whatever its parameters: beyond the samples TLC evaluates.
THEOREM RecordedPlansAreExact == BatchSpec => []PlansAreExact
<1>1. BatchInv => PlansAreExact
  BY PlanContent, CalculationIsExact DEF PlansAreExact, Calculable
<1> QED BY <1>1, BatchInvariant, PTL

\* Behind an open page, recipes still change by whole commands only, and a
\* creation is refused for its name only when a recipe has it.
THEOREM PlansKeepBook == BatchSpec => ImplementsRecipeBook /\ []ConflictsAreReal
<1>1. BatchInit => Book!BookInit
  BY DEF BatchInit, Init, Fresh, Book!BookInit
<1>2. BatchInv /\ [BatchNext]_batchVars => [Book!BookNext]_(Book!bookVars)
  <2> SUFFICES ASSUME BatchInv, [BatchNext]_batchVars PROVE [Book!BookNext]_(Book!bookVars)
    OBVIOUS
  <2>1. CASE RecipesNext \/ UNCHANGED recipeVars
    BY <2>1, StepImplements DEF BatchInv
  <2>2. CASE WholeCommand
    BY <2>2, WholeStep DEF BatchInv
  <2>3. CASE AccessMoves
    BY <2>3, StepImplements DEF BatchInv, RecipesNext
  <2> QED BY <2>1, <2>2, <2>3, Zenon DEF BatchNext, batchVars
<1>3. BatchInv => ConflictsAreReal
  BY DEF BatchInv, IInv, Handler, Answered, ConflictsAreReal, At
<1> QED BY <1>1, <1>2, <1>3, BatchInvariant, PTL DEF BatchSpec, Book!BookSpec, ImplementsRecipeBook
=============================================================================
