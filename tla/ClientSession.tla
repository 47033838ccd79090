----------------------------- MODULE ClientSession -----------------------------
(***************************************************************************)
(* The session of the user and the route of the client: the context of the  *)
(* application, its layout, the sign-in pages and their forms.  Supabase is *)
(* external: it keeps the session in local storage, serves one call at a    *)
(* time, and announces a change of the session before it answers the call. *)
(* There is one account.                                                   *)
(***************************************************************************)
EXTENDS Dashboard

VARIABLES
  calls,   \* the calls to Supabase that wait for their answer, in order
  notice,  \* what the form on show says: "none", "error", "success"
  pending, \* after effects: "mail" sent to reset the password, the "timer"
  out      \* ghost: the user signed out or lost the session, and has not
           \* signed in since

sessionVars == <<calls, notice, pending, out>>

Guest == {"signin", "signup", "forgot"}  \* the pages a signed-in user is sent from

MaxCalls == 2  \* bound: calls waiting

Announced(user) == [session EXCEPT !.user = user, !.loading = FALSE]

\* What mounts when the client comes to page p with that session: dialogs and
\* forms are new, callbacks of the page before are dropped.
Arrive(p, s) ==
  LET app   == p \in AppPages /\ s.user /\ ~s.loading
      lists == PageOf(p).reads \union (IF Mounted THEN {} ELSE AppSidebar)
  IN  /\ page' = p /\ session' = s
      /\ dialog' = Closed /\ draft' = 0 /\ ticked' = {}
      /\ selected' = NoRow /\ generation' = NoGeneration
      /\ home' = HomeMounted(home.dismissed)
      /\ requests' = Detached
      /\ notice' = "none"
      /\ IF app THEN Observe(lists, AppSidebar \union PageOf(p).reads)
                ELSE observed' = {} /\ UNCHANGED <<cache, missed>>

\* The document loads again: everything but the local storage is forgotten,
\* and the requests on their way are abandoned with it.
Reload(p, stored, kept) ==
  /\ page' = p
  /\ session' = [stored |-> stored, user |-> FALSE, loading |-> TRUE]
  /\ dialog' = Closed /\ draft' = 0 /\ ticked' = {}
  /\ selected' = NoRow /\ generation' = NoGeneration
  /\ home' = HomeMounted(home.dismissed)
  /\ requests' = {} /\ missed' = {} /\ observed' = {}
  /\ cache' = [l \in followed |-> Unfetched]
  /\ calls' = <<>> /\ notice' = "none" /\ pending' = kept

\* An announcement of the session mounts or unmounts what depends on it.
Announce(user, stored) ==
  LET s == [Announced(user) EXCEPT !.stored = stored]
  IN  IF s.user = session.user /\ ~session.loading
      THEN /\ session' = s
           /\ UNCHANGED <<cache, observed, requests, missed, page, dialog, draft,
                          ticked, selected, generation, home, notice>>
      ELSE Arrive(page, s)

cachedVars == <<server, followed>>

-----------------------------------------------------------------------------
(* The context of the application.                                         *)

\* The session in storage, when the context mounts.
GetSession ==
  /\ session.loading
  /\ Announce(session.stored, session.stored)
  /\ UNCHANGED <<cachedVars, budget, calls, pending, out>>

\* Supabase refreshes the token of the session it holds, and says so.
TokenRefreshed ==
  /\ session.stored /\ ~session.loading /\ calls = <<>> /\ Spend("refreshes")
  /\ Announce(TRUE, TRUE)
  /\ UNCHANGED <<cachedVars, calls, pending, out>>

\* The token cannot be refreshed any more.
SessionLost ==
  /\ session.stored /\ ~session.loading /\ calls = <<>> /\ Spend("losses")
  /\ Announce(FALSE, FALSE)
  /\ out' = TRUE
  /\ UNCHANGED <<cachedVars, calls, pending>>

Calls(op) ==
  /\ ~session.loading /\ Len(calls) < MaxCalls /\ Spend("calls")
  /\ calls' = Append(calls, op) /\ notice' = "none"
  /\ UNCHANGED <<server, followed, observed, cache, requests, missed,
                 screenVars, scheduleVars, home, pending, out>>

Waits(op) == \E i \in DOMAIN calls : calls[i] = op

-----------------------------------------------------------------------------
(* The forms.  Each disables its button while its call is under way.       *)

OnGuestPage(p) == page = p /\ ~session.loading /\ ~session.user

SignIn == OnGuestPage("signin") /\ ~Waits("signIn") /\ Calls("signIn")
SignUp == OnGuestPage("signup") /\ ~Waits("signUp") /\ notice # "success" /\ Calls("signUp")
ForgotPassword ==
  OnGuestPage("forgot") /\ ~Waits("forgot") /\ notice # "success" /\ Calls("forgot")
ResetPassword ==
  /\ page = "reset" /\ session.user /\ ~Waits("reset") /\ notice # "success"
  /\ Calls("reset")

\* Terms not agreed to, passwords that differ or are too short.
FormRefuses ==
  /\ notice = "none"
  /\ \/ OnGuestPage("signup") /\ ~Waits("signUp")
     \/ page = "settings" /\ Shown /\ ~Waits("changePassword")
     \/ page = "reset" /\ ~session.loading /\ session.user /\ ~Waits("reset")
  /\ notice' = "error"
  /\ UNCHANGED <<cacheVars, screenVars, scheduleVars, home, calls, pending, out>>

SaveProfile    == page = "settings" /\ Shown /\ ~Waits("saveProfile") /\ Calls("saveProfile")
ChangePassword == page = "settings" /\ Shown /\ ~Waits("changePassword") /\ Calls("changePassword")
SignOut        == Mounted /\ Calls("signOut")

-----------------------------------------------------------------------------
(* The answers: the announcement, then what follows the call in its form,    *)
(* whichever page is on show by now.                                       *)

Served == calls' = Tail(calls) /\ UNCHANGED cachedVars

\* signIn: to the application, wherever the client is by now
SignedIn ==
  /\ calls # <<>> /\ Head(calls) = "signIn" /\ Served
  /\ Arrive("home", [stored |-> TRUE, user |-> TRUE, loading |-> FALSE])
  /\ out' = FALSE
  /\ UNCHANGED <<budget, pending>>

\* signUp: with a session, or without one until the address is confirmed
SignedUp(confirmed) ==
  /\ calls # <<>> /\ Head(calls) = "signUp" /\ Served
  /\ IF confirmed
     THEN /\ Arrive(page, [stored |-> TRUE, user |-> TRUE, loading |-> FALSE])
          /\ out' = FALSE
     ELSE /\ notice' = IF page = "signup" THEN "success" ELSE notice
          /\ UNCHANGED <<observed, cache, requests, missed, screenVars, scheduleVars, home, out>>
  /\ UNCHANGED <<budget, pending>>

MailSent ==
  /\ calls # <<>> /\ Head(calls) = "forgot" /\ Served
  /\ notice' = IF page = "forgot" THEN "success" ELSE notice
  /\ pending' = pending \union {"mail"}
  /\ UNCHANGED <<observed, cache, requests, missed, budget, screenVars, scheduleVars, home, out>>

\* updateUser of the reset form and of the settings page
UserUpdated ==
  /\ calls # <<>> /\ Head(calls) \in {"reset", "saveProfile", "changePassword"}
  /\ session.stored /\ Served
  /\ IF session.user
     THEN /\ notice' = IF Head(calls) = "reset" /\ page = "reset" THEN "success" ELSE notice
          /\ UNCHANGED <<observed, cache, requests, missed, screenVars, scheduleVars, home>>
     ELSE Announce(TRUE, TRUE)
  /\ pending' = IF Head(calls) = "reset" THEN pending \union {"timer"} ELSE pending
  /\ UNCHANGED <<budget, out>>

\* mutant of SignOutEnds: the session in storage is left there
SignOutInContext ==
  /\ Arrive("signin", [session EXCEPT !.user = FALSE])
  /\ out' = TRUE

SignOutEnds ==
  /\ Arrive("signin", [stored |-> FALSE, user |-> FALSE, loading |-> FALSE])
  /\ out' = TRUE

SignedOut ==
  /\ calls # <<>> /\ Head(calls) = "signOut" /\ Served
  /\ SignOutEnds
  /\ UNCHANGED <<budget, pending>>

\* the page whose form shows the error of a call
FormOf(op) ==
  CASE op = "signIn" -> "signin" [] op = "signUp" -> "signup"
    [] op = "forgot" -> "forgot" [] op = "reset"  -> "reset"
    [] op = "changePassword" -> "settings"
    [] OTHER -> "none"

\* The error of a sign-out is ignored: the context forgets the user whom the
\* storage still knows.  The forms show theirs.
CallFails ==
  /\ calls # <<>> /\ Served /\ Spend("failures")
  /\ IF Head(calls) = "signOut"
     THEN Arrive("signin", [session EXCEPT !.user = FALSE, !.loading = FALSE])
     ELSE /\ notice' = IF page = FormOf(Head(calls)) THEN "error" ELSE notice
          /\ UNCHANGED <<observed, cache, requests, missed, screenVars, scheduleVars, home>>
  /\ UNCHANGED <<pending, out>>

\* updateUser without a session
UpdateRefused ==
  /\ calls # <<>> /\ Head(calls) \in {"reset", "saveProfile", "changePassword"}
  /\ ~session.stored /\ Served
  /\ UNCHANGED <<observed, cache, requests, missed, budget, screenVars, scheduleVars,
                 home, notice, pending, out>>

-----------------------------------------------------------------------------
(* Where the client goes by itself.                                        *)

\* the effect of the layout
RedirectToSignIn ==
  /\ page \in AppPages /\ ~session.loading /\ ~session.user
  /\ Arrive("signin", session)
  /\ UNCHANGED <<cachedVars, budget, calls, pending, out>>

\* mutant of SentToApp: the effect is missing on the other two pages
SentToAppFromSignIn == {"signin"}

\* the effect of the three guest pages
SentToApp == Guest
RedirectToApp ==
  /\ page \in SentToApp /\ ~session.loading /\ session.user
  /\ Arrive("home", session)
  /\ UNCHANGED <<cachedVars, budget, calls, pending, out>>

\* two seconds after the password was reset, wherever the client is by now
ResetTimer ==
  /\ "timer" \in pending
  /\ pending' = pending \ {"timer"}
  /\ IF page = "home" THEN UNCHANGED <<observed, cache, requests, missed, screenVars,
                                       scheduleVars, home, notice>>
                      ELSE Arrive("home", session)
  /\ UNCHANGED <<cachedVars, budget, calls, out>>

\* The server answers 401 to a list or to a request, whether or not the page
\* that asked is still there.
Unauthorized ==
  /\ Spend("refusals")
  /\ \/ \E l \in followed : cache[l].fetch = "sent"
     \/ \E q \in requests : q.phase = "sent"
  /\ Reload("signin", session.stored, pending \ {"timer"})
  /\ UNCHANGED <<cachedVars, out>>

-----------------------------------------------------------------------------
(* Where the user goes.                                                    *)

\* the side bar, the command palette (over any dialog), links of the pages
Visit(p) ==
  /\ Mounted /\ p \in AppPages \ {page} /\ Spend("visits")
  /\ Arrive(p, session)
  /\ UNCHANGED <<cachedVars, calls, pending, out>>

\* the links of the pages one sees without being signed in; only the first
\* page has one to the application
VisitGuest(p) ==
  /\ page \in Guest \union {"marketing", "reset"} /\ ~session.loading
  /\ p \in (Guest \union {"marketing", "home"}) \ {page} /\ Spend("visits")
  /\ p = "home" => page = "marketing"
  /\ Arrive(p, session)
  /\ UNCHANGED <<cachedVars, calls, pending, out>>

\* The first crumb of the header is a plain link: the document loads again.
BreadcrumbHome ==
  /\ Mounted /\ page # "home" /\ Spend("visits")
  /\ Reload("home", session.stored, pending \ {"timer"})
  /\ UNCHANGED <<cachedVars, out>>

\* The link in the mail opens the client with a session to reset the password.
OpenResetLink ==
  /\ "mail" \in pending /\ Spend("visits")
  /\ Reload("reset", TRUE, {})
  /\ out' = FALSE
  /\ UNCHANGED cachedVars

ClientSessionNext ==
  \/ GetSession \/ TokenRefreshed \/ SessionLost
  \/ SignIn \/ SignUp \/ ForgotPassword \/ ResetPassword \/ FormRefuses
  \/ SaveProfile \/ ChangePassword \/ SignOut
  \/ SignedIn \/ (\E confirmed \in BOOLEAN : SignedUp(confirmed)) \/ MailSent
  \/ UserUpdated \/ SignedOut \/ CallFails \/ UpdateRefused
  \/ RedirectToSignIn \/ RedirectToApp \/ ResetTimer \/ Unauthorized
  \/ (\E p \in AppPages : Visit(p)) \/ (\E p \in Guest \union {"marketing", "home"} : VisitGuest(p))
  \/ BreadcrumbHome \/ OpenResetLink
=============================================================================
