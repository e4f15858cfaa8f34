------------------------------- MODULE ServiceDesk -------------------------------
(***************************************************************************)
(* Tickets, and the asset and the SOC incident they are linked to           *)
(* (services/itsm_service.py, itsm_operational_service.py,                  *)
(* itsm_incident_sync_service.py, asset_service.py).                        *)
(*                                                                          *)
(* Each request is one commit, except that a ticket for an asset is         *)
(* committed before the asset is.                                           *)
(***************************************************************************)
EXTENDS Integers, Sequences, FiniteSets

CONSTANT MaxTickets

VARIABLES tickets,   \* service_tickets in order of creation
          asset,     \* assets.status
          deployed,  \* deployed_at is set
          incident,  \* incidents.status
          setting,   \* create_ticket_for_asset between its two commits: the ticket, 0 if none
          loose      \* history: the asset went to repair without a ticket, or its ticket was
                     \* cancelled, unlinked, retyped, deleted or synchronized

deskVars == <<tickets, asset, deployed, incident, setting, loose>>

Statuses  == {"open", "in_progress", "resolved", "closed", "cancelled"}   \* new is open, on_hold in_progress
Incidents == {"open", "resolved", "closed"}   \* open is investigating, which an alert or a ticket may make it
Over      == {"resolved", "closed", "cancelled"}
\* repair: maintenance, incident or change.  live: not deleted.
Ticket == [status : Statuses, repair : BOOLEAN, linked : BOOLEAN, soc : BOOLEAN, live : BOOLEAN]

TypeOK ==
  /\ tickets \in Seq(Ticket) /\ Len(tickets) <= MaxTickets
  /\ asset \in {"in_stock", "deployed", "in_repair", "disposed"} /\ deployed \in BOOLEAN
  /\ incident \in Incidents /\ setting \in 0..Len(tickets) /\ loose \in BOOLEAN

Init ==
  /\ tickets = <<>> /\ asset = "in_stock" /\ deployed = FALSE /\ incident = "open" /\ setting = 0
  /\ loose = FALSE

Live  == {i \in 1..Len(tickets) : tickets[i].live}
Fresh(repair, linked, soc) ==
  [status |-> "open", repair |-> repair, linked |-> linked, soc |-> soc, live |-> TRUE]
New(t) == Len(tickets) < MaxTickets /\ tickets' = Append(tickets, t)

---------------------------------------------------------------------------
(* ITSMService *)

CreateTicket(repair, linked) ==
  New(Fresh(repair, linked, FALSE)) /\ UNCHANGED <<asset, deployed, incident, setting, loose>>

\* create_ticket_for_asset with set_asset_in_repair; the type of the ticket may be any.
TicketForAsset(repair) ==
  /\ setting = 0 /\ New(Fresh(repair, TRUE, FALSE)) /\ setting' = Len(tickets) + 1
  /\ UNCHANGED <<asset, deployed, incident, loose>>

\* The second commit, or none (a crash); meanwhile the ticket may have been closed.
SetInRepair(ok) ==
  /\ setting # 0 /\ setting' = 0
  /\ asset' = IF ok THEN "in_repair" ELSE asset
  /\ loose' = (loose \/ (ok /\ ~(tickets[setting].live /\ tickets[setting].repair /\ tickets[setting].status \notin Over)))
  /\ UNCHANGED <<tickets, deployed, incident>>

\* Mutant: assets are restored when the ticket is closed, not when it is resolved.
Restores_Closed(t, status) == status = "closed" /\ t.linked /\ t.repair
Restores(t, status) == status \in {"resolved", "closed"} /\ t.linked /\ t.repair

\* set_status, update_ticket and _apply_status_side_effects; resolved_at and closed_at are left out.
SetStatus(i, status) ==
  LET t == tickets[i] IN
  /\ i \in Live /\ status # t.status
  /\ tickets' = [tickets EXCEPT ![i].status = status]
  /\ asset' = IF Restores(t, status) /\ asset = "in_repair"
              THEN IF deployed THEN "deployed" ELSE "in_stock" ELSE asset
  /\ loose' = (loose \/ status = "cancelled")
  /\ UNCHANGED <<deployed, incident, setting>>

\* delete_ticket, unlink_asset, update_ticket with another ticket_type
Detach(i) ==
  /\ i \in Live
  /\ \/ tickets' = [tickets EXCEPT ![i] = [Fresh(FALSE, FALSE, FALSE) EXCEPT !.live = FALSE]]
     \/ tickets[i].linked /\ tickets' = [tickets EXCEPT ![i].linked = FALSE]
     \/ tickets' = [tickets EXCEPT ![i].repair = ~@]
  /\ loose' = TRUE
  /\ UNCHANGED <<asset, deployed, incident, setting>>

LinkAsset(i) ==
  /\ i \in Live /\ ~tickets[i].linked /\ tickets' = [tickets EXCEPT ![i].linked = TRUE]
  /\ UNCHANGED <<asset, deployed, incident, setting, loose>>

---------------------------------------------------------------------------
(* AssetService: change_status and update_asset *)

\* Going to repair or being disposed of opens a ticket, in whose commit the asset is saved.
\* Only change_status stamps deployed_at.
ChangeStatus(status, stamps) ==
  /\ asset' = status /\ deployed' = (deployed \/ (status = "deployed" /\ stamps))
  /\ IF status \in {"in_repair", "disposed"} THEN New(Fresh(TRUE, TRUE, FALSE)) ELSE UNCHANGED tickets
  /\ UNCHANGED <<incident, setting, loose>>

\* No ticket is opened (its fields are refused): the asset is saved all the same.
ChangeStatusAlone ==
  /\ asset' = "in_repair" /\ loose' = TRUE
  /\ UNCHANGED <<tickets, deployed, incident, setting>>

---------------------------------------------------------------------------
(* Incidents *)

IncidentMoves(status) == incident' = status /\ UNCHANGED <<tickets, asset, deployed, setting, loose>>

\* ticket_to_incident
ToIncident(i) ==
  /\ i \in Live /\ tickets[i].soc
  /\ incident' = CASE tickets[i].status \in {"open", "in_progress"} -> "open"
                   [] tickets[i].status = "resolved"              -> "resolved"
                   [] OTHER                                       -> "closed"
  /\ UNCHANGED <<tickets, asset, deployed, setting, loose>>

\* sync_incident, sync_alert: a ticket, or its status without the side effects of set_status.
FromIncident ==
  LET mapped == IF incident = "open" THEN "in_progress" ELSE incident
      own    == {i \in Live : tickets[i].soc} IN
  /\ \/ own = {} /\ New(Fresh(TRUE, FALSE, TRUE)) /\ UNCHANGED loose
     \/ \E i \in own :
          /\ tickets' = [tickets EXCEPT ![i].status = mapped]
          /\ loose' = TRUE
  /\ UNCHANGED <<asset, deployed, incident, setting>>

---------------------------------------------------------------------------

Next ==
  \/ \E repair, linked \in BOOLEAN : CreateTicket(repair, linked)
  \/ \E repair \in BOOLEAN : TicketForAsset(repair)
  \/ \E ok \in BOOLEAN : SetInRepair(ok)
  \/ \E i \in 1..Len(tickets) : Detach(i) \/ LinkAsset(i) \/ ToIncident(i)
                                \/ \E status \in Statuses : SetStatus(i, status)
  \/ \E status \in {"in_stock", "deployed", "in_repair", "disposed"}, stamps \in BOOLEAN :
       asset # status /\ ChangeStatus(status, stamps)
  \/ ChangeStatusAlone \/ FromIncident
  \/ \E status \in Incidents : IncidentMoves(status)

Spec == Init /\ [][Next]_deskVars

---------------------------------------------------------------------------
(* Properties *)

\* Unless it was sent without a ticket or the ticket was taken away, an asset in repair has a
\* linked ticket whose end will bring it back.
RepairHasTicket ==
  asset = "in_repair" /\ ~loose =>
    \E i \in Live : tickets[i].linked /\ tickets[i].repair /\ tickets[i].status \notin Over
\* What the proof needs: the ticket create_ticket_for_asset is about to send the asset to repair for is linked.
Inv == TypeOK /\ RepairHasTicket /\ (setting # 0 /\ ~loose => tickets[setting].linked)
=================================================================================
