------------------------------- MODULE Screens -------------------------------
(***************************************************************************)
(* What each screen of the web application reads, offers and leads to.       *)
(*                                                                         *)
(* A part is a component that takes place on a screen: the queries it reads  *)
(* (the first word of their key), the gestures it offers, the screens it     *)
(* leads to.  A gesture is a call to the server with what its success does to *)
(* the cache of queries: those it overwrites with the answer, and those it    *)
(* invalidates.  Console says what happens on them.                          *)
(***************************************************************************)
EXTENDS FiniteSets, TLC

\* The roles of a member; "platform" is a member of the platform's team.
OrgRole == {"admin", "manager", "operator", "reader"}
Role == OrgRole \cup {"platform"}

Part(reads, offers, leads) == [reads |-> reads, offers |-> offers, leads |-> leads]
Nothing == Part({}, {}, {})

Joined(parts) == Part(UNION {p.reads : p \in parts}, UNION {p.offers : p \in parts},
                      UNION {p.leads : p \in parts})

Gesture(call, sets, refreshes) ==
  [call |-> call, sets |-> sets, refreshes |-> refreshes, onConflict |-> {}]

Links(leads) == Part({}, {}, leads)
Offered(gestures) == Part({}, gestures, {})
-----------------------------------------------------------------------------
(* The server: the queries whose answer each call changes (lib/api), and the *)
(* roles it is not refused to (core/permissions.py).                         *)

Movements == {"entry", "exit", "adjustment", "transfer"}

StockApi ==
  [c \in {"createDepot", "updateDepot"} |-> {"depots"}] @@
  [c \in {"configureArticle", "addVariant"} |-> {"article"}] @@
  "setThreshold" :> {"variant-thresholds", "article", "dashboard", "dashboard-understock"} @@
  [c \in Movements |-> {"stock-levels", "stock-movements", "consignment-summary", "dashboard",
                        "dashboard-understock"}
                       \cup IF c \in {"entry", "exit"} THEN {"stock-lots", "dashboard-expiring-lots"}
                                                     ELSE {}] @@
  "consign" :> {"consignment-summary", "stock-levels", "stock-movements", "dashboard"}

RecordsApi ==
  "createRecord" :> {"records", "dashboard", "dashboard-deadlines"} @@
  "updateRecord" :> {"record", "records", "record-link", "dashboard", "dashboard-deadlines"} @@
  "archiveRecord" :> {"record", "records", "dashboard", "dashboard-deadlines"} @@
  "addEvent" :> {"record-events", "dashboard"} @@
  "importRecords" :> {"records", "dashboard", "dashboard-deadlines"}

ModelsApi ==
  [c \in {"createModel", "activateTemplate", "updateModel", "addField", "updateField",
          "deleteField", "reorderFields"} |->
     {"model-definitions"} \cup IF c \in {"createModel", "activateTemplate"} THEN {}
                                                                 ELSE {"model-definition"}]

DashboardsApi ==
  [c \in {"saveDashboard", "pinDashboard", "deleteDashboard"} |->
     {"saved-dashboards"} \cup IF c = "saveDashboard" THEN {} ELSE {"dashboard-pinned"}]

AlertsApi ==
  [c \in {"acknowledge", "postpone", "markRead"} |->
     IF c = "markRead" THEN {"notifications"} ELSE {"alerts"}]

MembersApi == [c \in {"inviteMember", "updateMember"} |-> {"members"}]

SubscriptionsApi == [c \in {"declarePayment"} |-> {"subscription-payments"}]

PaymentCalls == {"validatePayment", "rejectPayment"}
CatalogCalls == {"saveOffer", "saveCurrency"}

EditorApi ==
  [c \in {"scan", "manualPayment", "adjust"} \cup PaymentCalls \cup CatalogCalls |->
     (IF c \in PaymentCalls THEN {"editor-payments-queue"} ELSE {})
     \cup (IF c = "saveOffer" THEN {"editor-catalog-offers"} ELSE {})
     \cup (IF c = "saveCurrency" THEN {"editor-catalog-currencies"} ELSE {})
     \cup (IF c \in {"rejectPayment", "saveCurrency"} THEN {} ELSE {"editor-organizations"})]

SyncApi == [c \in {"ackConflict"} |-> {"sync-conflicts"}]

Changes == StockApi @@ RecordsApi @@ ModelsApi @@ DashboardsApi @@ AlertsApi @@ MembersApi
           @@ SubscriptionsApi @@ EditorApi @@ SyncApi

\* own: is the alert addressed to this member?
Allowed(call, role, own) ==
  CASE call \in {"createDepot", "updateDepot", "configureArticle", "addVariant"}
                \cup DOMAIN ModelsApi \cup DOMAIN MembersApi \cup DOMAIN SubscriptionsApi
                \cup DOMAIN SyncApi
         -> role = "admin"
    [] call \in {"archiveRecord", "setThreshold"} -> role \in {"admin", "manager"}
    [] call \in {"acknowledge", "postpone"} -> own \/ role \in {"admin", "manager"}
    [] call \in DOMAIN DashboardsApi \cup {"markRead"} -> role \in OrgRole
    [] call \in DOMAIN EditorApi -> role = "platform"
    [] OTHER -> role \in {"admin", "manager", "operator"}
-----------------------------------------------------------------------------
(* The shell of the application: on every screen of a member. *)

OrganizationModels == Part({"model-definitions"}, {}, {})

ForAdministrator(r) == Links(IF r = "admin" THEN {"newModel", "members", "conflicts"} ELSE {})

AppSidebar(r) ==
  Joined({OrganizationModels, ForAdministrator(r),
          Links({"home", "alerts", "list", "models", "library", "depots", "subscription"})})

ModelsNavMenu(r) ==
  Joined({OrganizationModels, ForAdministrator(r),
          Links({"models", "library", "list", "depots", "subscription"})})

\* The palette proposes a new model and a new record to everybody.
CommandPalette(r) ==
  Part({"model-definitions"}, {},
       {"home", "models", "library", "newModel", "depots", "subscription", "list", "newRecord"}
         \cup IF r = "admin" THEN {"members"} ELSE {})

NotificationsBell ==
  Part({"notifications"}, {Gesture("markRead", {"notifications"}, {})}, {"alerts"})

\* Where an alert leads: its record, or the depots.
AlertTargetHref == {"redirect", "depots"}
NotificationRow == Links(AlertTargetHref)

Shell(r) == Joined({AppSidebar(r), ModelsNavMenu(r), CommandPalette(r),
                    NotificationsBell, NotificationRow})
-----------------------------------------------------------------------------
(* Home: the dashboard. *)

SavedDashboardsMenu ==
  Part({"saved-dashboards"},
       {Gesture("pinDashboard", {"saved-dashboards"}, {"dashboard-pinned"}),
        Gesture("deleteDashboard", {"saved-dashboards"}, {"dashboard-pinned"})}, {})

SaveDashboardDialog == Offered({Gesture("saveDashboard", {}, {"saved-dashboards"})})

GlobalDashboardView == Links({"deadlines", "understock", "expiringLots"})
AssetDashboardView  == Links({"deadlines"})
StockDashboardView  == Links({"understock", "expiringLots"})

DashboardScope == Part({"dashboard-pinned", "model-definitions", "depots", "dashboard"}, {}, {})

DashboardPage ==
  Joined({DashboardScope, SavedDashboardsMenu, SaveDashboardDialog,
          GlobalDashboardView, AssetDashboardView, StockDashboardView})

DeadlinesDrilldown == Part({"dashboard-deadlines"}, {}, {"redirect", "home"})
UnderstockDrilldown == Part({"dashboard-understock"}, {}, {"redirect", "home"})
ExpiringDrilldown == Part({"dashboard-expiring-lots"}, {}, {"redirect", "home"})

\* The dialog covers the page, which stays mounted.
DrilldownDialog(list) == Joined({Part(DashboardPage.reads, {}, {}), list})
-----------------------------------------------------------------------------
(* Models and records. *)

ModelsPage == Part({"model-definitions"}, {}, {"list", "library", "newModel"})

TemplateLibrary ==
  Part({"templates"}, {Gesture("activateTemplate", {}, {"model-definitions"})}, {"models"})

NewModelPage(r) ==
  IF r = "admin" THEN Part({}, {Gesture("createModel", {}, {})}, {"list", "models"})
                 ELSE Nothing

\* Only the model of this page is overwritten, by the answer.
ExistingFieldList == Offered({Gesture(c, {"model-definition"}, {}) :
                                c \in {"updateField", "deleteField", "reorderFields"}})

ModelSettingsForm ==
  Joined({Part({}, {Gesture("updateModel", {"model-definition"}, {}),
                    Gesture("addField", {}, {"model-definition"})}, {"list"}),
          ExistingFieldList})

SettingsPage(r) ==
  IF r = "admin"
  THEN Joined({Part({"model-definition"}, {}, {"list", "models"}), ModelSettingsForm})
  ELSE Nothing

RecordColumns == Part({"record-link", "document"}, {}, {"record", "redirect"})

\* New record and Import are hidden from a reader.
RecordList == Part({"model-definition", "records"}, {}, {"models"})

RecordsPage(r) ==
  Joined({RecordList, RecordColumns,
          Links({"record", "settings", "models"}
                  \cup IF r = "reader" THEN {} ELSE {"newRecord", "import"})})

ImportPage(r) ==
  IF r = "reader" THEN Nothing
  ELSE Part({"model-definition"}, {Gesture("importRecords", {}, {"records"})}, {"list", "models"})

\* The cache gets the record that was saved; the page leaves for it.
RecordForm(call) == Part({"record-link", "document"}, {Gesture(call, {"record"}, {})}, {"record"})

NewRecordPage == Joined({Part({"model-definition"}, {}, {"list", "models"}), RecordForm("createRecord")})
EditRecordPage ==
  Joined({Part({"model-definition", "record"}, {}, {"list"}), RecordForm("updateRecord")})

DocumentChip    == Part({"document"}, {}, {})
PhotoThumbnail  == Part({"document"}, {}, {})
RecordLinkValue == Part({"record-link"}, {}, {"redirect"})

FieldValueView == Joined({DocumentChip, PhotoThumbnail, RecordLinkValue})

RecordEventsPanel == Part({"record-events"}, {Gesture("addEvent", {}, {"record-events"})}, {})

RedirectPage == Part({"record-redirect"}, {}, {"record", "models"})
-----------------------------------------------------------------------------
(* The stock of an article, on the page of its record. *)

OfStock == {"stock-levels", "variant-thresholds", "stock-movements", "stock-lots"}

StockLevelsTable == Part({"stock-levels", "variant-thresholds"}, {}, {"depots"})
VariantThresholdDialog == Part({"variant-thresholds"}, {Gesture("setThreshold", {}, OfStock)}, {})
LotsPanel == Part({"stock-lots"}, {}, {})
MovementHistory == Part({"stock-movements"}, {}, {})

ConsignmentPanel ==
  Part({"consignment-summary", "catalog-currencies"},
       {Gesture("consign", {"consignment-summary"}, {"stock-levels", "stock-movements"})}, {})

\* Every movement ends with onDone, the view's invalidateStockData.
MovementDialog == Offered({Gesture(c, {}, OfStock) : c \in Movements})
AddVariantDialog == Offered({Gesture("addVariant", {}, {"article"})})

ArticleStockView ==
  Joined({Part({"depots", "catalog-currencies"}, {}, {}),
          AddVariantDialog, MovementDialog, StockLevelsTable, VariantThresholdDialog,
          ConsignmentPanel, LotsPanel, MovementHistory})

ArticleSetupForm == Offered({Gesture("configureArticle", {"article"}, {})})

StockPanel == Joined({Part({"article"}, {}, {}), ArticleSetupForm, ArticleStockView})

RecordCard == Part({"model-definition", "record"}, {Gesture("archiveRecord", {"record"}, {})}, {})

RecordPage ==
  Joined({RecordCard, Links({"list", "edit"}), FieldValueView, StockPanel, RecordEventsPanel})

DepotFormDialog == Offered({Gesture(c, {"depots"}, {}) : c \in {"createDepot", "updateDepot"}})
DepotsPage == Joined({Part({"depots"}, {}, {}), DepotFormDialog})
-----------------------------------------------------------------------------
(* Alerts, members, conflicts, subscription. *)

CanActOnAlert(r, own) == own \/ r \in {"admin", "manager"}

PostponeAlertDialog == Offered({Gesture("postpone", {}, {"alerts"})})

AlertList == Part({"alerts", "notifications"}, {}, {})

AlertRow(r, own) ==
  Joined({Links(AlertTargetHref),
          IF CanActOnAlert(r, own)
          THEN Joined({PostponeAlertDialog, Offered({Gesture("acknowledge", {}, {"alerts"})})})
          ELSE Nothing})

AlertsPage(r, own) == Joined({AlertList, AlertRow(r, own)})

InviteMemberDialog == Offered({Gesture("inviteMember", {"members"}, {})})

MemberList == Part({"members"}, {Gesture("updateMember", {"members"}, {})}, {})

\* Mutant: the page is shown to every member.
MembersForAll(r) == Joined({MemberList, InviteMemberDialog})

MembersPage(r) ==
  IF r # "admin" THEN Nothing ELSE Joined({MemberList, InviteMemberDialog})

\* The list of the unseen conflicts is read again, the whole list overwritten.
ConflictList ==
  Part({"sync-conflicts"}, {Gesture("ackConflict", {}, {"sync-conflicts"}),
                            Gesture("ackConflict", {"sync-conflicts"}, {})}, {})

ConflictsPage(r) == IF r = "admin" THEN ConflictList ELSE Nothing

DeclarePaymentDialog ==
  Offered({Gesture("declarePayment", {}, {"subscription", "subscription-payments"})})

SubscriptionState(r) ==
  Part({"subscription", "catalog-offers", "catalog-currencies"}
         \cup IF r = "admin" THEN {"subscription-payments", "subscription-invoices"} ELSE {},
       {}, {})

SubscriptionPage(r) ==
  Joined({SubscriptionState(r), IF r = "admin" THEN DeclarePaymentDialog ELSE Nothing})
-----------------------------------------------------------------------------
(* The screens of the platform's team. *)

EditorNav == Links({"overview", "organizations", "payments", "catalog"})

QuickLinkCard == Links({"organizations", "payments", "catalog"})

OverviewPage ==
  Joined({Part({"editor-organizations", "editor-payments-queue"},
               {Gesture("scan", {}, {"editor-organizations"})}, {}), QuickLinkCard, EditorNav})

SubscriptionAdjustDialog == Offered({Gesture("adjust", {"editor-organizations"}, {})})
OrganizationList == Part({"editor-organizations"}, {}, {})

OrganizationsPage == Joined({OrganizationList, SubscriptionAdjustDialog, EditorNav})

\* A payment that someone else has decided (409) is read again.
Decision(call) == [Gesture(call, {"editor-payments-queue"}, {}) EXCEPT
                     !.onConflict = {"editor-payments-queue"}]

PaymentValidateDialog == Offered({Decision("validatePayment")})
PaymentRejectDialog == Offered({Decision("rejectPayment")})
ManualPaymentDialog == Offered({Gesture("manualPayment", {}, {"editor-organizations"})})

PaymentsPage ==
  Joined({Part({"editor-payments-queue", "editor-organizations", "editor-catalog-offers",
                "editor-catalog-currencies"}, {}, {}),
          PaymentValidateDialog, PaymentRejectDialog, ManualPaymentDialog, EditorNav})

OfferFormDialog == Offered({Gesture("saveOffer", {"editor-catalog-offers"}, {})})
CurrencyFormDialog == Offered({Gesture("saveCurrency", {"editor-catalog-currencies"}, {})})

CatalogLists == Part({"editor-catalog-offers", "editor-catalog-currencies"}, {}, {})

CatalogPage == Joined({CatalogLists, OfferFormDialog, CurrencyFormDialog, EditorNav})
-----------------------------------------------------------------------------
\* The screens of a member, each in the shell; own: looks he at an alert of his own?
MemberPages(r, own) ==
  LET InShell(page) == Joined({page, Shell(r)}) IN
  [home |-> InShell(DashboardPage),
   deadlines |-> InShell(DrilldownDialog(DeadlinesDrilldown)),
   understock |-> InShell(DrilldownDialog(UnderstockDrilldown)),
   expiringLots |-> InShell(DrilldownDialog(ExpiringDrilldown)),
   models |-> InShell(ModelsPage), library |-> InShell(TemplateLibrary),
   newModel |-> InShell(NewModelPage(r)), list |-> InShell(RecordsPage(r)),
   settings |-> InShell(SettingsPage(r)), import |-> InShell(ImportPage(r)),
   newRecord |-> InShell(NewRecordPage), record |-> InShell(RecordPage),
   edit |-> InShell(EditRecordPage), redirect |-> InShell(RedirectPage),
   depots |-> InShell(DepotsPage), alerts |-> InShell(AlertsPage(r, own)),
   members |-> InShell(MembersPage(r)), conflicts |-> InShell(ConflictsPage(r)),
   subscription |-> InShell(SubscriptionPage(r))]

PlatformPages == [overview |-> OverviewPage, organizations |-> OrganizationsPage,
                  payments |-> PaymentsPage, catalog |-> CatalogPage]

\* Who looks, and whether the alert is his own.
MemberViews(r) == [own |-> MemberPages(r, TRUE), other |-> MemberPages(r, FALSE)]
Views == [admin |-> MemberViews("admin"), manager |-> MemberViews("manager"),
          operator |-> MemberViews("operator"), reader |-> MemberViews("reader"),
          platform |-> [own |-> PlatformPages, other |-> PlatformPages]]

Pages(r, own) == Views[r][IF own THEN "own" ELSE "other"]

ScreensOf(r) == DOMAIN Views[r].own
=============================================================================
