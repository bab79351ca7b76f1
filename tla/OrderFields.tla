------------------------------ MODULE OrderFields ------------------------------
(* What an order of the back office becomes: the fields picked from its alternative *)
(* names (api/rental.service.ts), the snapshot kept in the job, and what the rental *)
(* page shows and the matching compares later, when the order may have changed or   *)
(* be out of reach (modules/search-job/search-job.service.ts).                      *)
EXTENDS Naturals, Sequences

CONSTANTS RawOrders,     \* answers of the back office: the values of a field under its names
          IsUrl(_)       \* a value begins with http:// or https://

VARIABLES raw,           \* the order in the back office, or Gone
          job,           \* the job's row, or NoJob
          shown,         \* the order on the rental page, or None
          compared       \* what the matching compares listings with, or None

orderVars == <<raw, job, shown, compared>>

Null  == "null"
Blank == "blank"
Texts == {"brand", "productName", "modelName", "option", "color"}
Kept  == Texts \cup {"imageUrl"}
Gone  == [state |-> "gone"]
NoJob == [state |-> "none"]
None  == [state |-> "none"]

OrderAssumption ==
    /\ \A r \in RawOrders : \A f \in Kept \cup {"productNo", "price", "contractNo", "customerName"} :
          r[f] \in Seq(STRING)
    /\ ~IsUrl(Null) /\ ~IsUrl(Blank)

-----------------------------------------------------------------------------
(* normalizeOrder *)

FirstThat(s, Usable(_)) ==
    IF \E i \in DOMAIN s : Usable(s[i])
    THEN s[CHOOSE i \in DOMAIN s : Usable(s[i]) /\ \A j \in 1..(i - 1) : ~Usable(s[j])]
    ELSE Null

Given(v)   == v # Null
Written(v) == v \notin {Null, Blank}

(* The operator ??: the first name that is there decides, even when it is blank. *)
Present(s) == FirstThat(s, Given)

Text(v)    == IF v = Blank THEN Null ELSE v
PickUrl(s) == FirstThat(s, IsUrl)
Price(s)   == FirstThat(s, Written)

Normalized(r) ==
    [f \in Texts \cup {"imageUrl", "price", "productNo", "contractNo", "customerName"} |->
        CASE f = "imageUrl"  -> PickUrl(r[f])
          [] f = "price"     -> Price(r[f])
          [] f = "productNo" -> IF Written(Present(r[f])) THEN Present(r[f]) ELSE "orderNo"
          [] OTHER           -> Text(Present(r[f]))]

(* The names that the body of a request may use; the others are not passed on. *)
Named == [brand |-> {1}, productName |-> {1}, modelName |-> {1}, option |-> {2}, color |-> {1},
          imageUrl |-> {3}, productNo |-> {1, 3}, contractNo |-> {3}, customerName |-> {3},
          price |-> {}]

FromBody(r) ==
    [f \in DOMAIN Named |-> [i \in DOMAIN r[f] |-> IF i \in Named[f] THEN r[f][i] ELSE Null]]

-----------------------------------------------------------------------------
(* SearchJobService.create *)

(* The personal data of the order is not kept. *)
Row(order) == [f \in Kept \cup {"productNo", "contractNo", "customerName"} |->
                 IF f \in {"contractNo", "customerName"} THEN Null ELSE order[f]]

Init ==
    /\ raw \in RawOrders \cup {Gone}
    /\ job = NoJob /\ shown = None /\ compared = None

(* With an order in the body that has a product name, the back office is not asked. *)
CreateFromBody(r) ==
    /\ job = NoJob
    /\ LET order == Normalized(FromBody(r))
       IN  order.productName # Null /\ job' = Row(order)
    /\ UNCHANGED <<raw, shown, compared>>

(* Without a product name, or without a keyword made of it, the request is refused. *)
CreateFromOrder ==
    /\ job = NoJob /\ raw # Gone
    /\ LET order == Normalized(raw)
       IN  order.productName # Null /\ job' = Row(order)
    /\ UNCHANGED <<raw, shown, compared>>

(* The order is edited or deleted, or the back office does not answer. *)
OrderChanges ==
    /\ job # NoJob /\ raw' \in RawOrders \cup {Gone}
    /\ UNCHANGED <<job, shown, compared>>

-----------------------------------------------------------------------------
(* The job's later uses of the order. *)

(* toPublicOrder *)
Public(order) == [f \in DOMAIN order \ {"price"} |-> order[f]]

(* getRentalJobDetail: the order as it is now, or else the job's snapshot. *)
Show ==
    /\ job # NoJob
    /\ shown' = IF raw = Gone THEN job ELSE Public(Normalized(raw))
    /\ UNCHANGED <<raw, job, compared>>

(* A slip of Enriched: the order of now overrides the snapshot. *)
OrderFirst(f, now) == IF now[f] # Null THEN now[f] ELSE job[f]

Enriched(f, now) == IF job[f] # Null THEN job[f] ELSE now[f]

(* buildMatchingRentalSnapshot: the price is only known of the order of now. *)
Compare ==
    /\ job # NoJob
    /\ compared' =
         IF raw = Gone
         THEN [f \in Kept \cup {"price"} |-> IF f = "price" THEN Null ELSE job[f]]
         ELSE LET now == Normalized(raw)
              IN  [f \in Kept \cup {"price"} |-> IF f = "price" THEN now.price ELSE Enriched(f, now)]
    /\ UNCHANGED <<raw, job, shown>>

Next == \/ \E r \in RawOrders : CreateFromBody(r)
        \/ CreateFromOrder \/ OrderChanges \/ Show \/ Compare

-----------------------------------------------------------------------------
(* However the order changes after the job was made, listings are compared with     *)
(* what was searched for, completed by the order only where the job knows nothing;  *)
(* no job is without a product name, which the page falls back on; and no personal  *)
(* data is kept ("고객 개인정보는 영속화하지 않는다").                                     *)
ComparedAsSearched ==
    /\ job # NoJob => job.productName # Null /\ {job.contractNo, job.customerName} = {Null}
    /\ compared # None => \A f \in Kept : job[f] # Null => compared[f] = job[f]

=============================================================================
