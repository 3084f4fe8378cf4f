----------------------------- MODULE BatchPlans -----------------------------
(***************************************************************************)
(* The batch plans of a Bar, and the page where a member prepares one,     *)
(* while other members create and replace recipes and revise plans.  Every *)
(* request of the page is served under the lock of the workspace row, hence*)
(* in one step; it may be answered late, never, or be served after the page*)
(* gave up waiting.                                                        *)
(*                                                                         *)
(* A behaviour either leaves the page closed, and is one of Recipes, or    *)
(* opens it in a Bar, where recipes then change by whole commands: Recipes *)
(* implements RecipeBook.                                                  *)
(*                                                                         *)
(* A plan keeps the content it was made from.  The page saves only what it *)
(* has shown: parameters typed since the last preview must be calculated   *)
(* again.  Names are left out; a plan is known by its creation key.        *)
(***************************************************************************)
EXTENDS Recipes, BatchCalculation

CONSTANTS Keys,        \* creation keys: each is drawn once
          Parameters   \* bound: what the form may hold

ASSUME PlansAssumption == \A p \in Parameters : IsParameters(p)

VARIABLES plan,    \* each plan, or Nothing
          page,    \* what the page shows, its form and its intention
          call,    \* the request the page waits for, with its reply, or Nothing
          late     \* writes the page has given up on, that the server may still serve

planVars  == <<plan, page, call, late>>
batchVars == <<recipeVars, planVars>>

(* What a page was shown, what a write says, and the row it leaves.         *)
Previews     == [snapshot : ContentType, params : Parameters]
CreateBodies == [op : {"create"}, recipe : Names, from : 0..MaxVersion, access : 0..MaxAccess, params : Parameters]
UpdateBodies == [op : {"update"}, expects : 0..MaxVersion, access : 0..MaxAccess, params : Parameters]
Writes       == [ask : {"write"}, key : Keys, body : CreateBodies \cup UpdateBodies, shown : Previews]
PlanRows     == [recipe : Names, from : 0..MaxVersion, snapshot : ContentType, params : Parameters,
                 version : 0..MaxVersion, asked : CreateBodies, saw : Previews]

ASSUME PlanRowsAssumption == Nothing \notin PlanRows

Idle == [view |-> "list", active |-> Nothing, source |-> Nothing, access |-> 0, confirmed |-> 0,
         typed |-> Nothing, preview |-> Nothing, signature |-> Nothing, intent |-> Nothing,
         blocked |-> FALSE, uncertain |-> FALSE, missing |-> FALSE, inspected |-> Nothing]

Closed == [Idle EXCEPT !.view = "closed"]
Opened == page.view # "closed"

Failed(status) == [status |-> status, value |-> Nothing]
Given(value)   == [status |-> "200", value |-> value]

----------------------------------------------------------------------------
(* The server.  A request names the access version of the Bar and a recipe *)
(* or plan with the version its author has seen.                           *)

(* What a plan row looks like to its readers.                              *)
Projected(k, row) ==
    [id |-> k, version |-> row.version, recipe |-> row.recipe, from |-> row.from,
     snapshot |-> row.snapshot, params |-> row.params, access |-> access]

(* Mutation: the version of the recipe the page loaded is not compared.    *)
SourceOfAnyVersion(q) == recipe[q.body.recipe] # Nothing

SourceIsCurrent(q) == recipe[q.body.recipe].version = q.body.from

Previewed(q) ==
    LET content == IF q.body.op = "create" THEN recipe[q.body.recipe].content ELSE plan[q.key].snapshot
        current == IF q.body.op = "create" THEN SourceIsCurrent(q) ELSE plan[q.key].version = q.body.expects
    IN IF q.body.access # access \/ ~current THEN Failed("409")
       ELSE IF ~Calculates(content, q.body.params) THEN Failed("400")
       ELSE Given([snapshot |-> content, params |-> q.body.params])

(* The row a write leaves, and its answer.                                 *)
Kept(row, reply) == [row |-> row, reply |-> reply]

(* A key already used returns its plan, if the request is the same one.    *)
Created(q) ==
    LET row == [recipe |-> q.body.recipe, from |-> recipe[q.body.recipe].version,
                snapshot |-> recipe[q.body.recipe].content, params |-> q.body.params, version |-> 0,
                asked |-> q.body, saw |-> q.shown]
        prior == plan[q.key]
    IN IF q.body.access # access THEN Kept(prior, Failed("409"))
       ELSE IF prior # Nothing
       THEN Kept(prior, IF prior.asked = q.body THEN Given(Projected(q.key, prior)) ELSE Failed("409"))
       ELSE IF ~SourceIsCurrent(q) THEN Kept(prior, Failed("409"))
       ELSE IF ~Calculates(row.snapshot, q.body.params) THEN Kept(prior, Failed("400"))
       ELSE Kept(row, Given(Projected(q.key, row)))

(* Mutation: a revision marks the plan as made from the present recipe.    *)
UpdatedAsCurrent(q) ==
    LET prior == plan[q.key]
        row == [prior EXCEPT !.params = q.body.params, !.version = @ + 1, !.saw = q.shown,
                             !.from = recipe[prior.recipe].version]
    IN IF \/ q.body.access # access \/ prior.version # q.body.expects \/ prior.version = MaxVersion
          \/ ~Calculates(prior.snapshot, q.body.params)
       THEN Kept(prior, Failed("409")) ELSE Kept(row, Given(Projected(q.key, row)))

(* A revision keeps the snapshot; one that changes nothing writes nothing. *)
Updated(q) ==
    LET prior == plan[q.key]
        row == IF prior.params = q.body.params THEN prior
               ELSE [prior EXCEPT !.params = q.body.params, !.version = @ + 1, !.saw = q.shown]
    IN IF q.body.access # access \/ prior.version # q.body.expects THEN Kept(prior, Failed("409"))
       ELSE IF ~Calculates(prior.snapshot, q.body.params) THEN Kept(prior, Failed("400"))
       ELSE IF row # prior /\ prior.version = MaxVersion THEN Kept(prior, Failed("409"))
       ELSE Kept(row, Given(Projected(q.key, row)))

Written(q) == IF q.body.op = "create" THEN Created(q) ELSE Updated(q)

(* The content of a recipe, as its readers get it.                         *)
Loaded(n) ==
    [recipe |-> n, from |-> recipe[n].version, snapshot |-> recipe[n].content, access |-> access]

(* A plan by its key: its detail, or the receipt of its creation.          *)
Found(k) == IF plan[k] = Nothing THEN Failed("404") ELSE Given(Projected(k, plan[k]))

Read(q) ==
    CASE q.ask = "content" -> Given(Loaded(q.recipe))
      [] q.ask = "preview" -> Previewed(q)
      [] q.ask = "verify" -> Given([access |-> access])
      [] OTHER -> Found(q.key)

----------------------------------------------------------------------------
(* The page.  While a request is awaited nothing can be typed or pressed.  *)

Busy == call # Nothing
Ready(view) == ~Busy /\ page.view = view

Asks(q) == call' = [request |-> q, reply |-> Nothing]

(* body: nothing until a source is loaded and an ingredient is included.   *)
Body ==
    IF page.source = Nothing \/ page.typed = Nothing THEN Nothing
    ELSE IF page.active # Nothing
    THEN [op |-> "update", expects |-> page.active.version, access |-> page.access, params |-> page.typed]
    ELSE [op |-> "create", recipe |-> page.source.recipe, from |-> page.source.from,
          access |-> page.access, params |-> page.typed]

(* A plan the server answered replaces the form and what was known of it.  *)
Adopted(p) ==
    [page EXCEPT !.view = "plan", !.active = p, !.source = p, !.access = p.access,
                 !.typed = p.params, !.preview = [snapshot |-> p.snapshot, params |-> p.params],
                 !.signature = Nothing, !.intent = Nothing, !.blocked = FALSE, !.uncertain = FALSE, !.missing = FALSE,
                 !.inspected = Nothing]

Begin ==
    /\ Ready("list")
    /\ page' = [page EXCEPT !.view = "form", !.active = Nothing, !.source = Nothing,
                            !.preview = Nothing, !.intent = Nothing, !.blocked = FALSE,
                            !.uncertain = FALSE, !.inspected = Nothing]
    /\ UNCHANGED <<plan, call, late>>

Choose(n) ==
    /\ Ready("form") /\ page.active = Nothing /\ ~page.blocked /\ recipe[n] # Nothing
    /\ Asks([ask |-> "content", recipe |-> n])
    /\ UNCHANGED <<plan, page, late>>

Open(k) ==
    /\ Ready("list") /\ plan[k] # Nothing
    /\ Asks([ask |-> "detail", key |-> k])
    /\ UNCHANGED <<plan, page, late>>

Edit ==
    /\ Ready("plan")
    /\ page' = [page EXCEPT !.view = "form", !.preview = Nothing, !.signature = Nothing]
    /\ UNCHANGED <<plan, call, late>>

Type(p) ==
    /\ Ready("form") /\ page.source # Nothing /\ ~page.blocked /\ p # page.typed
    /\ page' = [page EXCEPT !.typed = p, !.preview = Nothing, !.signature = Nothing]
    /\ UNCHANGED <<plan, call, late>>

(* The plan a request is about: the one shown, or one to create.           *)
UnusedKeys == {k \in Keys : plan[k] = Nothing /\ \A q \in late : q.key # k}
Target == IF page.active # Nothing THEN {page.active.id} ELSE UnusedKeys

(* The preview, and the body it was calculated for.                        *)
Calculate ==
    /\ Ready("form") /\ ~page.blocked /\ Body # Nothing
    /\ \E k \in Target : Asks([ask |-> "preview", key |-> k, body |-> Body])
    /\ UNCHANGED <<plan, page, late>>

(* request: a write that names another access version than the one of the  *)
(* workspace shown is answered 409 without being sent.                     *)
Leaves(q) == q.body.access = page.confirmed

SendWrite(q) == call' = [request |-> q, reply |-> IF Leaves(q) THEN Nothing ELSE Failed("409")]

CanSave == page.preview # Nothing /\ page.signature = Body

Save ==
    /\ Ready("form") /\ ~page.blocked /\ Body # Nothing /\ CanSave
    /\ \E k \in Target :
          LET q == [ask |-> "write", key |-> k, body |-> Body, shown |-> page.preview]
          IN SendWrite(q) /\ page' = [page EXCEPT !.intent = q]
    /\ UNCHANGED <<plan, late>>

Receipt ==
    /\ Ready("form") /\ page.blocked /\ page.active = Nothing /\ page.intent # Nothing
    /\ Asks([ask |-> "receipt", key |-> page.intent.key])
    /\ UNCHANGED <<plan, page, late>>

RetrySame ==
    /\ Ready("form") /\ page.blocked /\ page.active = Nothing
    /\ page.uncertain /\ page.missing
    /\ SendWrite(page.intent)
    /\ UNCHANGED <<plan, page, late>>

(* The rights are verified first, then the plan is read.                   *)
Inspect ==
    /\ Ready("form") /\ page.blocked /\ page.active # Nothing
    /\ Asks([ask |-> "verify", key |-> page.active.id])
    /\ UNCHANGED <<plan, page, late>>

Resolve ==
    /\ Ready("form") /\ page.inspected # Nothing /\ ~page.uncertain
    /\ page' = Adopted(page.inspected)
    /\ UNCHANGED <<plan, call, late>>

Close ==
    /\ ~Busy /\ page.view # "list"
    /\ page' = [page EXCEPT !.view = "list", !.active = Nothing, !.source = Nothing,
                            !.preview = Nothing, !.intent = Nothing, !.blocked = FALSE, !.uncertain = FALSE]
    /\ UNCHANGED <<plan, call, late>>

----------------------------------------------------------------------------
(* Requests, served and answered.                                          *)

Serve ==
    /\ Busy /\ call.reply = Nothing
    /\ LET q == call.request
       IN IF q.ask = "write"
          THEN /\ plan' = [plan EXCEPT ![q.key] = Written(q).row]
               /\ call' = [call EXCEPT !.reply = Written(q).reply]
          ELSE /\ UNCHANGED plan
               /\ call' = [call EXCEPT !.reply = Read(q)]
    /\ UNCHANGED <<page, late>>

ServeLate ==
    /\ \E q \in late : /\ plan' = [plan EXCEPT ![q.key] = Written(q).row]
                       /\ late' = late \ {q}
    /\ UNCHANGED <<page, call>>

(* What the page does with an answer it understands.                       *)
Shown(q, value) ==
    CASE q.ask = "content" -> [page EXCEPT !.source = value, !.access = value.access,
                                           !.typed = Nothing, !.preview = Nothing]
      [] q.ask = "preview" -> [page EXCEPT !.preview = value, !.signature = q.body]
      [] q.ask = "verify"  -> [page EXCEPT !.confirmed = value.access]
      [] q.ask = "inspect" -> [page EXCEPT !.inspected = value]
      [] OTHER             -> Adopted(value)

(* And with an error; "lost" is a timeout or a failure of the network.     *)
Refused(q, status) ==
    CASE q.ask = "write"   -> [page EXCEPT !.blocked = TRUE, !.uncertain = (status = "lost")]
      [] q.ask = "receipt" -> [page EXCEPT !.missing = (status = "404")]
      [] OTHER             -> page

Deliver ==
    /\ Busy /\ call.reply # Nothing
    /\ call' = IF call.request.ask = "verify" /\ call.reply.status = "200"
               THEN [request |-> [ask |-> "inspect", key |-> call.request.key], reply |-> Nothing] ELSE Nothing
    /\ page' = IF call.reply.status = "200" THEN Shown(call.request, call.reply.value)
               ELSE Refused(call.request, call.reply.status)
    /\ UNCHANGED <<plan, late>>

(* What the page gives up on may still be served, or never.               *)
GivenUp ==
    IF Busy /\ call.request.ask = "write" /\ call.reply = Nothing THEN late \cup {call.request} ELSE late

Lost ==
    /\ Busy /\ (call.request.ask = "write" => Leaves(call.request))
    /\ call' = Nothing
    /\ page' = Refused(call.request, "lost")
    /\ late' = GivenUp
    /\ UNCHANGED plan

(* The session or the Bar is no longer confirmed: the form is forgotten and*)
(* its answers are abandoned; the Bar is then confirmed again.  What only a *)
(* new source makes visible is forgotten at once.                          *)
Clear ==
    /\ page' = [Idle EXCEPT !.confirmed = access, !.missing = page.missing]
    /\ call' = Nothing
    /\ late' = GivenUp
    /\ UNCHANGED plan

(* Another member revises a plan, on what they were shown.                 *)
Colleague(k, p) ==
    /\ plan[k] # Nothing
    /\ LET body == [op |-> "update", expects |-> plan[k].version, access |-> access, params |-> p]
           q == [ask |-> "write", key |-> k, body |-> body,
                 shown |-> [snapshot |-> plan[k].snapshot, params |-> p]]
       IN /\ Updated(q).row # plan[k]
          /\ plan' = [plan EXCEPT ![k] = Updated(q).row]
    /\ UNCHANGED <<page, call, late>>

----------------------------------------------------------------------------
(* Another member creates or replaces a recipe of the Bar.                 *)
WholeCommand ==
    /\ \E c \in Requests[kind], v \in 0..MaxVersion :
          LET stated == [c EXCEPT !.version = v]
          IN Book!CreateWhole(stated) \/ Book!ReplaceWhole(stated)
    /\ UNCHANGED <<kind, access, lock, tx>>

BatchInit ==
    /\ Init
    /\ plan = [k \in Keys |-> Nothing]
    /\ page \in {Closed} \cup IF kind = "SHARED" THEN {Idle} ELSE {}
    /\ call = Nothing
    /\ late = {}

PageStep ==
    \/ Begin \/ Edit \/ Calculate \/ Save \/ Receipt \/ RetrySame \/ Inspect \/ Resolve \/ Close
    \/ Serve \/ ServeLate \/ Deliver \/ Lost \/ Clear
    \/ \E n \in Names : Choose(n)
    \/ \E k \in Keys : Open(k)
    \/ \E p \in Parameters : Type(p) \/ \E k \in Keys : Colleague(k, p)

BatchNext ==
    \/ ~Opened /\ RecipesNext /\ UNCHANGED planVars
    \/ Opened /\ (WholeCommand \/ AccessMoves) /\ UNCHANGED planVars
    \/ Opened /\ PageStep /\ UNCHANGED recipeVars

BatchSpec == BatchInit /\ [][BatchNext]_batchVars /\ Fairness

----------------------------------------------------------------------------
(* Every plan, revisions included, holds the content and the parameters    *)
(* whose quantities its author was shown before saving them: typing after a*)
(* preview, recipes replaced meanwhile, retries and late requests included.*)
PlansAreAsPreviewed ==
    \A k \in Keys : plan[k] # Nothing =>
        [snapshot |-> plan[k].snapshot, params |-> plan[k].params] = plan[k].saw

(* A plan that is not flagged as made from another version holds the       *)
(* present content of its recipe, degrees and lines included.              *)
UnflaggedPlansAreCurrent ==
    \A k \in Keys : plan[k] # Nothing /\ recipe[plan[k].recipe].version = plan[k].from =>
        plan[k].snapshot = recipe[plan[k].recipe].content

(* A recorded plan always calculates, or it could not be read any more, and*)
(* every sample that calculates is exact: a line is the amount of its      *)
(* recipe scaled once, moved to the nearest multiple of its step (a half   *)
(* goes up) and to nothing else; the portions are those the rounded base   *)
(* can serve, what stays at service is scaled to them, and the shares make *)
(* a whole.                                                                *)
CalculationsAreExact ==
    /\ Inexact = {}
    /\ \A k \in Keys : plan[k] # Nothing => Calculates(plan[k].snapshot, plan[k].params)
=============================================================================
