------------------------------- MODULE MobileMenu -------------------------------
(***************************************************************************)
(* components/layout/Navbar.tsx and MobileMenu.tsx, of the Lab and of the  *)
(* main site: a dialog that takes over the keyboard and the scrolling of   *)
(* the page.  The site decides where the two differ.                       *)
(*                                                                         *)
(* React draws a change of state in one step and runs the effects of what  *)
(* it drew in a later one; events come in between.  An effect that was     *)
(* set up is cleaned up with the values it was set up with.                *)
(***************************************************************************)
EXTENDS Naturals

VARIABLES
  site,       \* lab or main
  layout,     \* narrow, where the toggle and the dialog are visible, or wide
  opened,     \* the state of the Navbar
  drawn,      \* what is drawn of it
  effective,  \* what its effects have been run for
  leaving,    \* the dialog is closed and still fades out
  inert,      \* the page under the dialog takes no focus and no clicks
  locked,     \* the body does not scroll
  trapped,    \* the key listener is attached
  focus       \* where the focus is

menuVars == <<site, layout, opened, drawn, effective, leaving, inert, locked, trapped, focus>>

-----------------------------------------------------------------------------
(* Elements that take the focus: the toggle, the brand link and the other  *)
(* links of the bar and the rest of the page, the first link and the rest  *)
(* of the dialog.  The focus is lost when its element goes, hides or       *)
(* becomes inert, and is "hidden" when that was the toggle or a link of    *)
(* the bar, which the layout hides.                                        *)
Page == {"toggle", "brand", "links", "page"}

Dialog == {"first", "dialog"}

MenuInit ==
  /\ site \in {"lab", "main"}
  /\ layout \in {"narrow", "wide"}
  /\ opened = FALSE /\ drawn = FALSE /\ effective = FALSE /\ leaving = FALSE
  /\ inert = FALSE /\ locked = FALSE /\ trapped = FALSE
  /\ focus = "page"

Present == drawn \/ leaving

(* The toggle is shown in the narrow layout and the links in the wide one. *)
ShownIn(x, l) == (x = "toggle" => l = "narrow") /\ (x = "links" => l = "wide")

(* What can be focused; the dialog hides in the wide layout.               *)
Focusable ==
  {x \in Page : ~inert /\ ShownIn(x, layout)}
    \cup {x \in Dialog : Present /\ layout = "narrow"}

Settled == opened = drawn /\ drawn = effective

-----------------------------------------------------------------------------
(* The toggle; a click focuses it.                                         *)
Toggle ==
  /\ "toggle" \in Focusable
  /\ opened' = ~opened
  /\ focus' = "toggle"
  /\ UNCHANGED <<site, layout, drawn, effective, leaving, inert, locked, trapped>>

(* The backdrop, the close button or a link of the dialog.                 *)
Close ==
  /\ "dialog" \in Focusable
  /\ opened' = FALSE
  /\ \E x \in Dialog : focus' = x
  /\ UNCHANGED <<site, layout, drawn, effective, leaving, inert, locked, trapped>>

(* The location changes, by a link or by the buttons of the browser.       *)
ChangeRoute ==
  /\ opened' = FALSE
  /\ UNCHANGED <<site, layout, drawn, effective, leaving, inert, locked, trapped, focus>>

Escape ==
  /\ trapped
  /\ opened' = FALSE
  /\ UNCHANGED <<site, layout, drawn, effective, leaving, inert, locked, trapped, focus>>

(* The listener keeps Tab within the dialog, as long as there is one.      *)
Tab ==
  /\ \/ /\ trapped /\ Present
        /\ focus' \in Dialog \cap Focusable
     \/ /\ ~(trapped /\ Present)
        /\ focus' \in Focusable
  /\ UNCHANGED <<site, layout, opened, drawn, effective, leaving, inert, locked, trapped>>

(* The layout changes.  The Lab closes the menu when it becomes wide.      *)
Resize ==
  /\ layout' \in {"narrow", "wide"} \ {layout}
  /\ opened' = IF site = "lab" /\ layout' = "wide" THEN FALSE ELSE opened
  /\ focus' = CASE ~ShownIn(focus, layout') -> "hidden"
                [] layout' = "wide" /\ focus \in Dialog -> "lost"
                [] OTHER -> focus
  /\ UNCHANGED <<site, drawn, effective, leaving, inert, locked, trapped>>

-----------------------------------------------------------------------------
(* React draws the state, after the effects of what it drew before.  The   *)
(* dialog of the Lab goes at once, that of the main site fades out.        *)
Draw ==
  /\ opened # drawn /\ drawn = effective
  /\ drawn' = opened
  /\ leaving' = (site = "main" /\ ~opened)
  /\ focus' = IF site = "lab" /\ ~opened /\ focus \in Dialog THEN "lost" ELSE focus
  /\ UNCHANGED <<site, layout, opened, effective, inert, locked, trapped>>

FadedOut ==
  /\ leaving
  /\ leaving' = FALSE
  /\ focus' = IF focus \in Dialog THEN "lost" ELSE focus
  /\ UNCHANGED <<site, layout, opened, drawn, effective, inert, locked, trapped>>

(* Focusing what takes no focus does nothing.                              *)
Focused(x, reachable, before) == IF reachable THEN x ELSE before

(* Wrong: the focus returns before the page takes it again.                *)
ReturnFocusEarly(before) ==
  Focused(IF site = "lab" /\ layout = "wide" THEN "brand" ELSE "toggle",
          ~inert /\ (site = "lab" \/ layout = "narrow"), before)

(* Where the focus goes when the menu closes: to the toggle, or in the Lab *)
(* to the brand link when the toggle is hidden.  The page takes the focus  *)
(* again by then, as the cleanup of the first effect runs first.           *)
ReturnFocus(before) ==
  Focused(IF site = "lab" /\ layout = "wide" THEN "brand" ELSE "toggle",
          site = "lab" \/ layout = "narrow", before)

RunEffects ==
  /\ drawn # effective
  /\ effective' = drawn
  /\ locked' = drawn
  /\ inert' = (drawn /\ site = "lab")
  /\ trapped' = drawn
  /\ LET blurred == IF inert' /\ focus \in Page THEN "lost" ELSE focus IN
     focus' = IF drawn THEN Focused("first", layout = "narrow", blurred) ELSE ReturnFocus(focus)
  /\ UNCHANGED <<site, layout, opened, drawn, leaving>>

MenuNext ==
  \/ Toggle \/ Close \/ ChangeRoute \/ Escape \/ Tab \/ Resize
  \/ Draw \/ FadedOut \/ RunEffects

MenuSpec == MenuInit /\ [][MenuNext]_menuVars

-----------------------------------------------------------------------------
(* Whatever is clicked, pressed, resized or navigated to, and whenever,    *)
(* once React has caught up: the page is taken over exactly as long as the *)
(* menu is open, the menu of the Lab is open only where it can be seen,    *)
(* and a closed menu has not lost the focus: but for the main site, which  *)
(* keeps its menu open when the layout becomes wide and returns the focus  *)
(* to a toggle that is hidden there.  The effects of a menu have nothing   *)
(* to restore when the layout hides the toggle or a link of the bar under  *)
(* the focus while the menu is closed, and on neither site is there        *)
(* anything else to do it: the focus is "hidden" then.                     *)
MenuGivesThePageBack ==
  Settled =>
    /\ opened <=> locked
    /\ opened <=> trapped
    /\ inert <=> opened /\ site = "lab"
    /\ opened /\ site = "lab" => layout = "narrow" /\ focus \in Dialog
    /\ ~opened => focus \notin Dialog \/ leaving
    /\ ~opened /\ site = "lab" => focus # "lost"
=============================================================================
