------------------------------- MODULE Console -------------------------------
(***************************************************************************)
(* What a user sees of what he has just done: one gesture of Screens, and one *)
(* query of the cache whose answer it changes (TanStack Query, with the        *)
(* options of query-provider.tsx), while the user goes from screen to screen. *)
(*                                                                         *)
(* Nobody else changes the query, except the decision on a payment that       *)
(* someone else may have taken (409).  A query that waits for the network     *)
(* only waits: the gestures are those of a user who is online.                *)
(***************************************************************************)
EXTENDS Screens

VARIABLES member, mine,     \* who uses the application; is the alert his own?
          gesture, query,  \* the gesture and the query that are looked at
          screen,
          data,          \* cache: "none", or the answer "before" or "after" it
          invalid,       \* cache: to be read again when it is next looked at
          fetch,         \* "none", or a request: not served yet, served before or after
          failed,        \* did the last request of the query fail?
          overtaken,     \* will an older answer replace the news in the cache?
          local,         \* the copy of the record kept in IndexedDB
          fromLocal,     \* is that copy what the cache holds?
          phase,         \* of the gesture
          changed        \* server

user  == <<member, mine, gesture, query>>
cache == <<data, invalid, fetch, failed, overtaken, local, fromLocal>>
vars  == <<user, screen, cache, phase, changed>>

Page(s)  == Pages(member, mine)[s]
Shown(s) == query \in Page(s).reads

\* Any gesture that a screen offers to this member; the address of any screen
\* opens it.
Init ==
  /\ member \in Role /\ mine \in BOOLEAN
  /\ screen \in ScreensOf(member)
  /\ gesture \in UNION {Page(s).offers : s \in ScreensOf(member)}
  /\ mine => gesture.call \in DOMAIN AlertsApi
  /\ query \in Changes[gesture.call]
  /\ data = "none" /\ invalid = FALSE
  /\ fetch = IF Shown(screen) THEN "asked" ELSE "none"
  /\ failed = FALSE /\ overtaken = FALSE
  /\ local \in IF query = "record" THEN {"none", "before"} ELSE {"none"}
  /\ fromLocal = FALSE
  /\ phase = "idle" /\ changed = FALSE
-----------------------------------------------------------------------------
Now == IF changed THEN "after" ELSE "before"

\* The queries of the shell stay mounted.
ShellReads == UNION {Shell(r).reads : r \in OrgRole}

Ask == fetch' = "asked" /\ failed' = FALSE /\ overtaken' = FALSE

\* A screen that is opened reads again what is missing or stale, unless a
\* request is on its way.  What both screens share stays as it is.
Open(s) ==
  /\ s \in Page(screen).leads \ {screen}
  /\ screen' = s
  /\ IF Shown(s) /\ query \notin ShellReads /\ (data = "none" \/ invalid) /\ fetch = "none"
     THEN Ask ELSE UNCHANGED <<fetch, failed, overtaken>>
  /\ UNCHANGED <<user, data, invalid, local, fromLocal, phase, changed>>

\* The button of an error, the poll of the notifications, the network that is
\* back.
AskAgain ==
  /\ Shown(screen) /\ fetch = "none"
  /\ failed \/ invalid \/ query = "notifications"
  /\ Ask
  /\ UNCHANGED <<user, screen, data, invalid, local, fromLocal, phase, changed>>

FetchServed ==
  /\ fetch = "asked"
  /\ fetch' = Now
  /\ UNCHANGED <<user, screen, data, invalid, failed, overtaken, local, fromLocal, phase, changed>>

\* The page of a record keeps a copy of what it reads; that of its form does not.
Keeps == query = "record" /\ screen = "record"

FetchArrives ==
  /\ fetch \in {"before", "after"}
  /\ data' = fetch /\ invalid' = FALSE /\ fetch' = "none" /\ failed' = FALSE
  /\ fromLocal' = FALSE
  /\ local' = IF Keeps THEN fetch ELSE local
  /\ UNCHANGED <<user, screen, overtaken, phase, changed>>

\* After a second try without network, the page of a record shows its copy, the
\* list what copies the device has; otherwise the error is shown.
Copies == (Keeps /\ local # "none") \/ (query = "records" /\ screen = "list")

FetchFails ==
  /\ fetch # "none"
  /\ fetch' = "none"
  /\ \/ /\ Copies
        /\ data' = (IF Keeps THEN local ELSE "before") /\ fromLocal' = TRUE
        /\ invalid' = FALSE /\ failed' = FALSE
     \/ failed' = TRUE /\ UNCHANGED <<data, invalid, fromLocal>>
  /\ UNCHANGED <<user, screen, overtaken, local, phase, changed>>

\* The stale time: thirty seconds, a minute, fifteen seconds.
Expire ==
  /\ data # "none" /\ ~invalid
  /\ invalid' = TRUE
  /\ UNCHANGED <<user, screen, data, fetch, failed, overtaken, local, fromLocal, phase, changed>>
-----------------------------------------------------------------------------
Press ==
  /\ phase = "idle"
  /\ gesture \in Page(screen).offers
  /\ phase' = "sent"
  /\ UNCHANGED <<user, screen, cache, changed>>

GestureServed ==
  /\ phase = "sent"
  /\ IF Allowed(gesture.call, member, mine)
     THEN phase' = "served" /\ changed' = TRUE
     ELSE phase' = "refused" /\ UNCHANGED changed
  /\ UNCHANGED <<user, screen, cache>>

\* Mutant: the query is only marked, its observers are not told.
InvalidateLater ==
  /\ invalid' = TRUE
  /\ UNCHANGED <<data, fetch, failed, overtaken, local, fromLocal>>

\* invalidateQueries: a query that is on screen is read again, and a request on
\* its way is given up for it; but not the first one, which has no data yet.
Invalidate ==
  /\ invalid' = TRUE
  /\ IF Shown(screen) /\ (fetch = "none" \/ data # "none")
     THEN Ask /\ data' = data
     ELSE /\ overtaken' = (fetch = "before") /\ UNCHANGED <<fetch, failed, data>>
  /\ UNCHANGED <<local, fromLocal>>

\* setQueryData: nothing stops a request on its way.  A list that was never
\* read is not made of the answer, or only of it, by the pages that show it.
Overwrite ==
  /\ data' = IF data = "none" /\ gesture.call \notin {"createRecord", "updateRecord", "archiveRecord",
                                                      "configureArticle", "consign"}
             THEN data ELSE "after"
  /\ invalid' = FALSE /\ failed' = FALSE /\ fromLocal' = FALSE
  /\ overtaken' = (fetch = "before")
  /\ UNCHANGED <<fetch, local>>

GestureAnswered ==
  /\ phase = "served"
  /\ phase' = "done"
  /\ IF query \in gesture.sets THEN Overwrite
     ELSE IF query \in gesture.refreshes THEN Invalidate
     ELSE UNCHANGED cache
  /\ UNCHANGED <<user, screen, changed>>

\* The answer, or the request, is lost: an error is shown, nothing is read again.
GestureFails ==
  /\ phase \in {"sent", "served"}
  /\ phase' = "failed"
  /\ UNCHANGED <<user, screen, cache, changed>>

\* 409: someone else has done it.
GestureConflicts ==
  /\ phase = "sent" /\ gesture.onConflict # {}
  /\ phase' = "conflict" /\ changed' = TRUE
  /\ IF query \in gesture.onConflict THEN Invalidate ELSE UNCHANGED cache
  /\ UNCHANGED <<user, screen>>

Next ==
  \/ \E s \in Page(screen).leads : Open(s)
  \/ AskAgain \/ FetchServed \/ FetchArrives \/ FetchFails \/ Expire
  \/ Press \/ GestureServed \/ GestureAnswered \/ GestureFails \/ GestureConflicts

Spec == Init /\ [][Next]_vars
-----------------------------------------------------------------------------
TypeOK ==
  /\ screen \in ScreensOf(member)
  /\ data \in {"none", "before", "after"} /\ local \in {"none", "before", "after"}
  /\ fetch \in {"none", "asked", "before", "after"}
  /\ phase \in {"idle", "sent", "served", "done", "failed", "refused", "conflict"}
  /\ {invalid, failed, overtaken, fromLocal, changed} \subseteq BOOLEAN

AtRest == fetch = "none" /\ ~failed /\ data # "none"

\* What the code leaves as it was until the query is stale and looked at again:
\* the dashboards after anything, the list of the models after what is not the
\* activation of a template, the list of the records after a form...
LeftStale ==
  ((DOMAIN Changes) \X {"dashboard", "dashboard-deadlines", "dashboard-understock",
                        "dashboard-expiring-lots"})
  \cup (((DOMAIN ModelsApi) \ {"activateTemplate"}) \X {"model-definitions"})
  \cup ({"createRecord", "updateRecord", "archiveRecord"} \X {"records"})
  \cup (Movements \X {"consignment-summary"})
  \cup ({"validatePayment", "saveOffer"} \X {"editor-organizations"})
  \cup {<<"setThreshold", "article">>, <<"updateRecord", "record-link">>}

\* Of the tables of Screens: except for that, a gesture overwrites or invalidates
\* every query it changes, wherever it is offered.
GesturesReport ==
  \A r \in Role, own \in BOOLEAN : \A s \in ScreensOf(r) :
    \A g \in Pages(r, own)[s].offers : \A q \in Changes[g.call] :
      \/ <<g.call, q>> \in LeftStale
      \/ q \in g.sets \cup g.refreshes /\ (g.onConflict = {} \/ q \in g.onConflict)

\* A screen leads to screens of the same member, and a query of the shell that is
\* read there was read here.
ShellStays ==
  \A r \in Role, own \in BOOLEAN : \A s \in ScreensOf(r) : \A to \in Pages(r, own)[s].leads :
    to \in ScreensOf(r) /\ ShellReads \cap Pages(r, own)[to].reads \subseteq Pages(r, own)[s].reads

\* Once a gesture has succeeded, a screen that has finished reading shows what
\* it changed, whatever the order in which the answers came and wherever the
\* user went meanwhile; unless an older answer, which the cache has no way to
\* recognise, came after it, or the record shown is the copy of the device.
OwnChangesAreShown ==
  phase \in {"done", "conflict"} /\ AtRest /\ Shown(screen) /\ ~overtaken /\ ~fromLocal
  /\ <<gesture.call, query>> \notin LeftStale
    => data = "after"

\* The buttons that no screen hides from the roles the server refuses.
Unguarded ==
  ({"activateTemplate", "addVariant", "configureArticle", "createDepot", "updateDepot"}
     \X {"manager", "operator", "reader"})
  \cup ({"archiveRecord", "setThreshold"} \X {"operator", "reader"})
  \cup (({"createRecord", "updateRecord", "addEvent", "consign"} \cup Movements) \X {"reader"})

\* What a screen offers to a member is not refused to him by the server.
OffersAreHonoured == phase = "refused" => <<gesture.call, member>> \in Unguarded
=============================================================================
