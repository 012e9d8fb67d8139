------------------------------- MODULE Session -------------------------------
(***************************************************************************)
(* The session of one browser tab: AuthProvider (lib/auth/auth-context.tsx), *)
(* the route handlers that own the cookie (app/api/auth), the guards of the  *)
(* pages (lib/auth/route-guards.ts) and what the layouts show.               *)
(*                                                                         *)
(* A token is known by its owner.  The cookie of the browser changes with    *)
(* the answer of a route, never before.  The query of the organizations is   *)
(* keyed by the token: each new token starts a new one.                      *)
(***************************************************************************)
EXTENDS Naturals

CONSTANTS User,
          Admin,        \* the users that are is_platform_admin
          None,
          StrictMode,   \* React mounts, unmounts and mounts AuthProvider
          Slow          \* may a call be sent before the last one answered?

ConstantsAssumption ==
  /\ Admin \subseteq User
  /\ None \notin User
  /\ {StrictMode, Slow} \subseteq BOOLEAN

VARIABLES status, user, token, orgs,  \* AuthProvider
          page, card,                 \* the route that is shown; a card for its form?
          cookie,                     \* owner of the refresh token
          expired,                    \* users whose refresh token is refused
          boot,                       \* the two passes of the bootstrap effect
          calls,                      \* requests of session on their way
          hasOrg                      \* server: users with an organization

vars == <<status, user, token, orgs, page, card, cookie, expired, boot, calls, hasOrg>>
client == <<status, user, token, orgs>>

\* reset and invitation are opened by the link of an e-mail.
ByMail == {"reset", "invitation"}
Public == {"login", "signup", "forgot"} \cup ByMail
Pages  == Public \cup {"onboarding", "app", "editor"}
Idle == [st |-> "idle", of |-> None]
NoBoot == [at |-> "over", as |-> None, live |-> FALSE]

\* Mutant: a flag "already started" lets the first pass alone run.
BootOnce == [i \in 1..2 |-> IF i = 2 THEN NoBoot
               ELSE [at |-> "refresh", as |-> None, live |-> ~StrictMode]]

\* Strict mode cancels the first pass and starts again.
Boot == [i \in 1..2 |-> IF i = 2 /\ ~StrictMode THEN NoBoot
           ELSE [at |-> "refresh", as |-> None, live |-> StrictMode => i = 2]]

\* A link that is incomplete, expired or used shows a card for the form.
Cards(p) == IF p \in ByMail THEN BOOLEAN ELSE {FALSE}

\* Any page, opened with or without the cookie of an earlier visit.
Init ==
  /\ status = "loading" /\ user = None /\ token = None /\ orgs = Idle
  /\ page \in Pages /\ card \in Cards(page)
  /\ cookie \in User \cup {None}
  /\ expired \in SUBSET User
  /\ boot = Boot
  /\ calls = {}
  /\ hasOrg \in SUBSET User

\* What the pages read: organizationsLoading, organizationsError, organizations.
Loading == orgs.st = "loading"
Failed  == orgs.st = "error"
Listed  == orgs.st = "some"

\* The shell of the application is shown for an organization of the list, or
\* with the error that the list met; that of the editor for an editor.
Shell == /\ status = "authenticated"
         /\ \/ page = "app" /\ (Listed \/ Failed)
            \/ page = "editor" /\ user \in Admin

\* Where nobody should stay: the screen of patience, which is neither a shell
\* nor a public page, and a public page when the session is known.
Patience == \/ page \in {"app", "editor"} /\ ~Shell
            \/ page \in Public /\ status = "authenticated"

\* Opening an address in the tab forgets all but the cookie.  A page that is
\* still loading would only load again.
Reload ==
  /\ status # "loading" /\ ~Patience
  /\ Slow \/ calls = {}
  /\ status' = "loading" /\ user' = None /\ token' = None /\ orgs' = Idle
  /\ page' \in Pages /\ card' \in Cards(page')
  /\ boot' = Boot
  /\ calls' = {}
  /\ UNCHANGED <<cookie, expired, hasOrg>>
-----------------------------------------------------------------------------
\* Mutant: the query of the organizations does not depend on the token.
KeepList(u) == orgs' = IF orgs = Idle THEN [st |-> "loading", of |-> u] ELSE orgs

\* A new token is a new query.
NewList(u) == orgs' = [st |-> "loading", of |-> u]

SignIn(u) == status' = "authenticated" /\ user' = u /\ token' = u /\ NewList(u)

\* Mutant: the status stays when no session is left.
LoseToken == token' = None /\ orgs' = Idle /\ UNCHANGED <<status, user>>

\* refreshAccessToken without an answer: the user is not forgotten.
LoseSession == /\ token' = None /\ orgs' = Idle
               /\ status' = "unauthenticated"
               /\ UNCHANGED user

\* The refresh route: a refused token is dropped, an unreachable server not.
RefreshedCookie(sent, heard) ==
  CASE ~heard \/ sent = None -> cookie
    [] heard /\ sent \in expired -> None
    [] OTHER -> sent

Valid(sent, heard) == heard /\ sent # None /\ sent \notin expired

\* The effect of AuthProvider: refresh, then /auth/me, then the state.  What a
\* cancelled pass learns is dropped, but its route has set the cookie.
BootRefreshed(i, heard) ==
  /\ boot[i].at = "refresh"
  /\ cookie' = RefreshedCookie(cookie, heard)
  /\ LET ok == Valid(cookie, heard)
     IN /\ boot' = [boot EXCEPT ![i].at = IF ok /\ boot[i].live THEN "me" ELSE "over",
                                ![i].as = IF ok THEN cookie ELSE None]
        /\ status' = IF boot[i].live /\ ~ok THEN "unauthenticated" ELSE status
  /\ UNCHANGED <<user, token, orgs, page, card, expired, calls, hasOrg>>

BootKnown(i, heard) ==
  /\ boot[i].at = "me"
  /\ boot' = [boot EXCEPT ![i].at = "over"]
  /\ IF heard THEN SignIn(boot[i].as)
     ELSE status' = "unauthenticated" /\ UNCHANGED <<user, token, orgs>>
  /\ UNCHANGED <<page, card, cookie, expired, calls, hasOrg>>

BootEnds == \E i \in 1..2, heard \in BOOLEAN :
              BootRefreshed(i, heard) \/ BootKnown(i, heard)
-----------------------------------------------------------------------------
Quiet == calls = {} /\ \A i \in 1..2 : boot[i].at = "over"

Call(what, u) ==
  /\ Slow \/ Quiet
  /\ \A c \in calls : c.do # what
  /\ calls' = calls \cup {[do |-> what, who |-> u]}
  /\ UNCHANGED <<client, page, card, cookie, expired, boot, hasOrg>>

\* The forms of the public pages, shown while the session is still loading.
\* Login and signup also take the answer of Google.
LoginPage(u)  == page = "login" /\ Call("signin", u)
SignupPage(u) == page = "signup" /\ Call("signin", u)
ResetPasswordForm(u)    == page = "reset" /\ ~card /\ Call("signin", u)
AcceptInvitationForm(u) == page = "invitation" /\ ~card /\ Call("signin", u)

\* Whether or not the address has an account, it is told that a link was sent.
ForgotPasswordPage ==
  /\ page = "forgot" /\ ~card
  /\ card' = TRUE
  /\ UNCHANGED <<client, page, cookie, expired, boot, calls, hasOrg>>

AskSignOut == page \notin Public /\ status = "authenticated" /\ Call("signout", token)

\* The queue meets a 401 in a pass (runSyncPass).
AskRefresh == status = "authenticated" /\ Call("refresh", cookie)

AskOnboard == page = "onboarding" /\ token # None /\ Call("onboard", token)

\* A link that is refused (400) will not be taken again: the card replaces the form.
SignInAnswered(c, heard) ==
  /\ c.do = "signin"
  /\ expired' = expired \ {c.who}
  /\ IF heard THEN cookie' = c.who /\ SignIn(c.who) /\ UNCHANGED card
     ELSE /\ card' \in {card} \cup Cards(page)
          /\ UNCHANGED <<client, cookie>>
  /\ UNCHANGED hasOrg

\* logout waits for its route: without an answer nothing is forgotten.
SignOutAnswered(c, heard) ==
  /\ c.do = "signout"
  /\ IF heard
     THEN /\ cookie' = None /\ user' = None /\ token' = None /\ orgs' = Idle
          /\ status' = "unauthenticated"
     ELSE UNCHANGED <<client, cookie>>
  /\ UNCHANGED <<card, expired, hasOrg>>

RefreshAnswered(c, heard) ==
  /\ c.do = "refresh"
  /\ cookie' = RefreshedCookie(c.who, heard)
  /\ IF Valid(c.who, heard)
     THEN token' = c.who /\ NewList(c.who) /\ UNCHANGED <<status, user>>
     ELSE LoseSession
  /\ UNCHANGED <<card, expired, hasOrg>>

\* completeOnboarding refetches the list; the answer may be lost after it.
OnboardAnswered(c, heard) ==
  /\ c.do = "onboard"
  /\ hasOrg' \in IF heard THEN {hasOrg \cup {c.who}} ELSE {hasOrg, hasOrg \cup {c.who}}
  /\ orgs' = IF heard /\ orgs.of = c.who THEN [orgs EXCEPT !.st = "loading"] ELSE orgs
  /\ UNCHANGED <<status, user, token, card, cookie, expired>>

\* An error of a form and a lost answer change nothing in the tab.
Answered ==
  \E c \in calls, heard \in BOOLEAN :
    /\ \/ SignInAnswered(c, heard) \/ SignOutAnswered(c, heard)
       \/ RefreshAnswered(c, heard) \/ OnboardAnswered(c, heard)
    /\ calls' = calls \ {c}
    /\ UNCHANGED <<page, boot>>

\* The thirty days of a refresh token; no request takes that long.
Expire(u) == /\ Quiet
             /\ expired' = expired \cup {u}
             /\ UNCHANGED <<client, page, card, cookie, boot, calls, hasOrg>>
-----------------------------------------------------------------------------
\* The query of the organizations.  Without network it is paused: neither
\* loading nor in error.
SetList(st) == orgs' = [orgs EXCEPT !.st = st]

\* An answer that cannot be read is no error to the pages: they see an empty list.
ListAnswered ==
  /\ orgs.st = "loading"
  /\ \/ SetList(IF orgs.of \in hasOrg THEN "some" ELSE "empty")
     \/ SetList("error") \/ SetList("empty")
  /\ UNCHANGED <<status, user, token, page, card, cookie, expired, boot, calls, hasOrg>>

ListPaused ==
  /\ orgs.st = "loading"
  /\ SetList("paused")
  /\ UNCHANGED <<status, user, token, page, card, cookie, expired, boot, calls, hasOrg>>

\* The network is back, or the user asks again where the page offers it.
ListAgain ==
  /\ orgs.st \in {"paused", "error"}
  /\ SetList("loading")
  /\ UNCHANGED <<status, user, token, page, card, cookie, expired, boot, calls, hasOrg>>

GoTo(p) == /\ page' = p /\ card' = FALSE
           /\ UNCHANGED <<client, cookie, expired, boot, calls, hasOrg>>

RedirectIfAuthenticated ==
  /\ page \in Public /\ status = "authenticated" /\ ~Loading
  /\ GoTo(IF Listed THEN "app" ELSE "onboarding")

RequireOnboarding ==
  /\ page = "onboarding"
  /\ \/ status = "unauthenticated" /\ GoTo("login")
     \/ status = "authenticated" /\ ~Loading /\ Listed /\ GoTo("app")

RequireOrganization ==
  /\ page = "app"
  /\ \/ status = "unauthenticated" /\ GoTo("login")
     \/ /\ status = "authenticated" /\ ~Loading /\ ~Failed /\ ~Listed
        /\ GoTo("onboarding")

RequirePlatformAdmin ==
  /\ page = "editor"
  /\ \/ status = "unauthenticated" /\ GoTo("login")
     \/ status = "authenticated" /\ user \notin Admin /\ GoTo("app")

Redirect == \/ RedirectIfAuthenticated \/ RequireOnboarding
            \/ RequireOrganization \/ RequirePlatformAdmin

\* Links of the two shells; instead of the list's error the application shows none.
Navigate == \/ page = "app" /\ Shell /\ ~Failed /\ user \in Admin /\ GoTo("editor")
            \/ page = "editor" /\ Shell /\ GoTo("app")

\* Links of the public pages, of the cards to the login or to another link.
FollowLink(p) ==
  /\ Slow \/ Quiet
  /\ p \in CASE page = "login" -> {"signup", "forgot"}
              [] page = "reset" -> IF card THEN {"login", "forgot"} ELSE {}
              [] page \in {"signup", "forgot", "invitation"} -> {"login"}
              [] OTHER -> {}
  /\ GoTo(p)

Next == \/ Reload \/ BootEnds \/ Answered
        \/ \E u \in User : \/ LoginPage(u) \/ SignupPage(u) \/ ResetPasswordForm(u)
                           \/ AcceptInvitationForm(u) \/ Expire(u)
        \/ \E p \in Public : FollowLink(p)
        \/ ForgotPasswordPage
        \/ AskSignOut \/ AskRefresh \/ AskOnboard
        \/ ListAnswered \/ ListPaused \/ ListAgain
        \/ Redirect \/ Navigate

Spec == Init /\ [][Next]_vars

\* The requests of the bootstrap and of the list end.  An effect runs after the
\* rendering that calls for it, before the network can come and go: a
\* redirection that is called for again and again takes place.
FairSpec == Spec /\ WF_vars(BootEnds) /\ WF_vars(ListAnswered) /\ SF_vars(Redirect)
-----------------------------------------------------------------------------
TypeOK ==
  /\ status \in {"loading", "unauthenticated", "authenticated"}
  /\ {user, token, cookie} \subseteq User \cup {None}
  /\ orgs.st \in {"idle", "loading", "paused", "error", "empty", "some"}
  /\ orgs.of \in User \cup {None}
  /\ page \in Pages /\ card \in BOOLEAN
  /\ \A i \in 1..2 : boot[i].at \in {"refresh", "me", "over"}
  /\ \A c \in calls : c.do \in {"signin", "signout", "refresh", "onboard"}
  /\ hasOrg \subseteq User /\ expired \subseteq User

\* When no call of session is on its way, the name shown, the token the requests
\* carry and the cookie that the next visit starts from are of one user, and
\* without a session no token is left; whatever call failed before.
SessionIsWhole ==
  Quiet => CASE status = "authenticated" -> user # None /\ token = user /\ cookie = user
             [] status = "unauthenticated" -> token = None
             [] OTHER -> FALSE

\* The organizations offered, one of which every page works in, are those of
\* the token that the requests carry, at every moment.
OrganizationsBelongToToken == Listed => status = "authenticated" /\ orgs.of = token

\* Nobody stays on it: the bootstrap concludes, the list is shown, refused or
\* failed, and the guards lead elsewhere.
PatienceEnds == Patience ~> ~Patience

\* Nobody who has an organization is asked to create one.
OnboardingIsForTheOrgless ==
  [][Redirect /\ page' = "onboarding" => token \notin hasOrg]_vars
=============================================================================
