----------------------------------- MODULE Msp -----------------------------------
(***************************************************************************)
(* Customer organizations and what belongs to them: sites, departments,     *)
(* contacts, and one branding and one subscription each                     *)
(* (services/msp_service.py, services/msp_customer_ops.py).                 *)
(*                                                                          *)
(* Requests run in threads.  A request that creates a row reads the         *)
(* organization first and inserts in a second step, where the foreign keys  *)
(* and unique constraints of models/msp.py decide.  An organization and its *)
(* tenant are one here; billing plans are not modelled.                     *)
(***************************************************************************)
EXTENDS FiniteSets

CONSTANTS Orgs, Rows, Threads, Nothing

VARIABLES orgs,     \* the organizations there are
          parent,   \* organization -> the one above it
          row,      \* the tables below them
          request,  \* what each thread is about to insert, and what follows
          wizard,   \* history: organizations created by the wizard
          cut,      \* history: those whose wizard failed, or that an operator changed
          patched   \* history: rows whose site was patched

mspVars == <<orgs, parent, row, request, wizard, cut, patched>>

Single == {"branding", "subscription"}   \* one for each organization
Kinds  == Single \union {"site", "department", "contact", "technician"}
NoRow == [kind |-> "none", org |-> Nothing, site |-> Nothing]
Idle  == [step |-> "idle", new |-> NoRow]
Row   == [kind : {"none"} \union Kinds, org : Orgs \union {Nothing}, site : Rows \union {Nothing}]

TypeOK ==
  /\ orgs \subseteq Orgs /\ parent \in [Orgs -> Orgs \union {Nothing}]
  /\ row \in [Rows -> Row]
  /\ request \in [Threads -> [step : {"idle", "insert", "wizard site", "wizard contact"}, new : Row]]
  /\ wizard \subseteq Orgs /\ cut \subseteq Orgs /\ patched \subseteq Rows

Init ==
  /\ orgs = {} /\ parent = [o \in Orgs |-> Nothing] /\ wizard = {} /\ cut = {} /\ patched = {}
  /\ row = [r \in Rows |-> NoRow] /\ request = [t \in Threads |-> Idle]

RowsOf(kind) == {r \in Rows : row[r].kind = kind}
IsSiteOf(s, o) == s \in RowsOf("site") /\ row[s].org = o

---------------------------------------------------------------------------
(* Organizations *)

\* The tenant comes with it; uq_organizations_tenant_id refuses a second one.
CreateOrganization(o, above) ==
  /\ o \notin orgs /\ above \in orgs \union {Nothing}
  /\ orgs' = orgs \union {o} /\ parent' = [parent EXCEPT ![o] = above]
  /\ wizard' = wizard \ {o} /\ cut' = cut \ {o}
  /\ UNCHANGED <<row, request, patched>>

\* No check that the new parent is not below the organization, or the organization itself.
UpdateOrganization(o, above) ==
  /\ o \in orgs /\ above \in orgs /\ parent' = [parent EXCEPT ![o] = above]
  /\ UNCHANGED <<orgs, row, request, wizard, cut, patched>>

\* References to rows that are deleted become NULL.
Without(gone) == [r \in Rows |-> IF r \in gone THEN NoRow
                                 ELSE IF row[r].site \in gone THEN [row[r] EXCEPT !.site = Nothing] ELSE row[r]]

\* Everything below goes with it; its clients stay without a parent.
DeleteOrganization(o) ==
  /\ o \in orgs /\ orgs' = orgs \ {o}
  /\ parent' = [c \in Orgs |-> IF c = o \/ parent[c] = o THEN Nothing ELSE parent[c]]
  /\ row' = Without({r \in Rows : row[r].org = o})
  /\ patched' = {r \in patched : row[r].org # o}
  /\ UNCHANGED <<request, wizard, cut>>

---------------------------------------------------------------------------
(* Rows below an organization *)

Begins(t, new) ==
  /\ request[t] = Idle /\ new.org \in orgs
  /\ request' = [request EXCEPT ![t] = [step |-> "insert", new |-> new]]
  /\ UNCHANGED <<orgs, parent, row, wizard, cut, patched>>

Site(o)          == [kind |-> "site", org |-> o, site |-> Nothing]
Department(o, s) == [kind |-> "department", org |-> o, site |-> s]
Contact(o, s)    == [kind |-> "contact", org |-> o, site |-> s]
Technician(o)    == [kind |-> "technician", org |-> o, site |-> Nothing]
TenantBranding(o)     == [kind |-> "branding", org |-> o, site |-> Nothing]
TenantSubscription(o) == [kind |-> "subscription", org |-> o, site |-> Nothing]

CreateSite(t, o)          == Begins(t, Site(o))
CreateDepartment(t, o, s) == (s = Nothing \/ IsSiteOf(s, o)) /\ Begins(t, Department(o, s))
CreateContact(t, o, s)    == Begins(t, Contact(o, s))   \* any site
CreateTechnician(t, o)    == Begins(t, Technician(o))

Has(o, kind) == \E r \in RowsOf(kind) : row[r].org = o
UpsertBranding(t, o)     == ~Has(o, "branding") /\ Begins(t, TenantBranding(o))
CreateSubscription(t, o) == ~Has(o, "subscription") /\ Begins(t, TenantSubscription(o))

\* The constraints at the INSERT.
Accepts(new) ==
  /\ new.org \in orgs
  /\ new.site = Nothing \/ new.site \in RowsOf("site")
  /\ new.kind \in Single => ~Has(new.org, new.kind)

Insert(t, r) ==
  /\ request[t].step = "insert" /\ Accepts(request[t].new) /\ row[r] = NoRow
  /\ row' = [row EXCEPT ![r] = request[t].new]
  /\ request' = [request EXCEPT ![t] = Idle]
  /\ UNCHANGED <<orgs, parent, wizard, cut, patched>>

\* The constraint fails, or the process dies before a commit.
Fail(t) ==
  /\ request[t] # Idle
  /\ request' = [request EXCEPT ![t] = Idle]
  /\ cut' = IF request[t].step = "insert" THEN cut ELSE cut \union {request[t].new.org}
  /\ UNCHANGED <<orgs, parent, row, wizard, patched>>

\* update_department, update_contact: any site
Update(r, s) ==
  /\ row[r].kind \in {"department", "contact"} /\ s \in RowsOf("site") \union {Nothing}
  /\ row' = [row EXCEPT ![r].site = s] /\ patched' = patched \union {r}
  /\ cut' = cut \union {row[r].org}
  /\ UNCHANGED <<orgs, parent, request, wizard>>

Delete(r) ==
  /\ row[r].kind \in {"site", "department", "contact", "technician"} /\ row' = Without({r}) /\ patched' = patched \ {r}
  /\ cut' = cut \union {row[r].org}
  /\ UNCHANGED <<orgs, parent, request, wizard>>

---------------------------------------------------------------------------
(* create_customer_wizard: three commits *)

WizardOrganization(t, o) ==
  /\ request[t] = Idle /\ o \notin orgs
  /\ orgs' = orgs \union {o} /\ wizard' = wizard \union {o} /\ cut' = cut \ {o}
  /\ request' = [request EXCEPT ![t] = [step |-> "wizard site", new |-> Site(o)]]
  /\ UNCHANGED <<parent, row, patched>>

\* The organization may be gone by now, and another of this name in its place is not the one meant.
WizardSite(t, r) ==
  /\ request[t].step = "wizard site" /\ row[r] = NoRow /\ Accepts(request[t].new)
  /\ row' = [row EXCEPT ![r] = request[t].new]
  /\ request' = [request EXCEPT ![t] = [step |-> "wizard contact", new |-> [@.new EXCEPT !.kind = "contact", !.site = r]]]
  /\ UNCHANGED <<orgs, parent, wizard, cut, patched>>

\* Mutant: the contact is not put at the site.
WizardContact_Apart(t, r) ==
  /\ request[t].step = "wizard contact" /\ row[r] = NoRow /\ Accepts(request[t].new)
  /\ row' = [row EXCEPT ![r] = [request[t].new EXCEPT !.site = Nothing]]
  /\ request' = [request EXCEPT ![t] = Idle]
  /\ UNCHANGED <<orgs, parent, wizard, cut, patched>>

WizardContact(t, r) ==
  /\ request[t].step = "wizard contact" /\ row[r] = NoRow /\ Accepts(request[t].new)
  /\ row' = [row EXCEPT ![r] = request[t].new]
  /\ request' = [request EXCEPT ![t] = Idle]
  /\ UNCHANGED <<orgs, parent, wizard, cut, patched>>

---------------------------------------------------------------------------

\* An identifier is not used again while a request still holds it.
Held(x) == \E t \in Threads : request[t] # Idle /\ (request[t].new.org = x \/ request[t].new.site = x)

Next ==
  \/ \E o \in Orgs, above \in Orgs \union {Nothing} : UpdateOrganization(o, above) \/ (~Held(o) /\ CreateOrganization(o, above))
  \/ \E o \in Orgs : DeleteOrganization(o)
  \/ \E t \in Threads, o \in Orgs :
       \/ CreateSite(t, o) \/ CreateTechnician(t, o) \/ UpsertBranding(t, o) \/ CreateSubscription(t, o)
       \/ \E s \in Rows \union {Nothing} : CreateDepartment(t, o, s) \/ CreateContact(t, o, s)
  \/ \E t \in Threads, r \in Rows : ~Held(r) /\ (Insert(t, r) \/ WizardSite(t, r) \/ WizardContact(t, r))
  \/ \E t \in Threads, o \in Orgs : ~Held(o) /\ WizardOrganization(t, o)
  \/ \E r \in Rows : Delete(r) \/ (\E s \in Rows \union {Nothing} : Update(r, s))
  \/ \E t \in Threads : Fail(t)

Spec == Init /\ [][Next]_mspVars

---------------------------------------------------------------------------
(* Properties *)

\* However creations, patches and deletions interleave, an organization's parent and a row's
\* organization and site exist, and a department never patched is at a site of its own organization.
NothingDangles ==
  (\A o \in Orgs : parent[o] \in orgs \union {Nothing}) /\
  \A r \in Rows : row[r] # NoRow =>
    /\ row[r].org \in orgs
    /\ row[r].site # Nothing => row[r].site \in RowsOf("site")
    /\ row[r].kind = "department" /\ row[r].site # Nothing /\ r \notin patched => IsSiteOf(row[r].site, row[r].org)

\* Nothing dangles, and a customer the wizard made has a site and a contact there, unless one of the wizard's three
\* commits failed or an operator changed them since.
CustomersAreWhole == NothingDangles /\
  \A o \in (wizard \intersect orgs) \ cut :
    \/ \E t \in Threads : request[t].step \in {"wizard site", "wizard contact"} /\ request[t].new.org = o
    \/ \E c \in RowsOf("contact") : row[c].org = o /\ row[c].site # Nothing /\ IsSiteOf(row[c].site, o)
\* What the proof needs: the site a request names is of its organization, if it is still there.
SitesAreOwn == \A t \in Threads :
  LET new == request[t].new IN
  /\ IF request[t].step = "idle" THEN request[t] = Idle ELSE new.org # Nothing
  /\ request[t].step = "wizard site" => new.kind = "site" /\ new.site = Nothing
  /\ request[t].step = "wizard contact" => new.kind = "contact" /\ new.site # Nothing
  /\ new.site # Nothing /\ (new.kind = "department" \/ request[t].step = "wizard contact") =>
       row[new.site] = NoRow \/ IsSiteOf(new.site, new.org)
Inv == TypeOK /\ CustomersAreWhole /\ SitesAreOwn
=============================================================================
