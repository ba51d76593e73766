------------------------------- MODULE Header -------------------------------
(***************************************************************************)
(* The site's header: menus that open under the pointer and on a click,    *)
(* and that the pointer may leave for a moment, and the drawer of small    *)
(* screens.  It stays while the pages below it change.                     *)
(***************************************************************************)
EXTENDS TLC

CONSTANTS
    Nowhere,  \* no menu
    Hovers    \* whether the device has a pointer that hovers

ASSUME HeaderAssumption == Hovers \in BOOLEAN

VARIABLES
    path,     \* the page
    menu,     \* the menu that is open
    drawer,   \* whether the drawer is
    leaving,  \* whether the timer that closes the menu is running
    pointer   \* the menu, with its button, that the pointer is over

headerVars == <<path, menu, drawer, leaving, pointer>>
----------------------------------------------------------------------------
\* The links of each menu.  The shortcuts to one network lead to the bridge as
\* well, and those to other sites open a tab of their own.
Links ==
    "bridge" :> {"/bridge", "/activity", "/tokens", "/status"} @@
    "learn" :> {"/faq"} @@
    "network" :> {"/status", "/tokens"}

Menus == DOMAIN Links

\* The sitemap at the foot of every page.
Footer == {"/bridge", "/activity", "/tokens", "/status", "/faq"}

Paths == {"/"} \cup Footer \cup UNION {Links[m] : m \in Menus}

HeaderInit ==
    /\ path \in Paths
    /\ menu = Nowhere /\ drawer = FALSE /\ leaving = FALSE /\ pointer = Nowhere

\* Mutant of PointerEnters: the timer is left running.
PointerEntersOnly(m) ==
    /\ Hovers /\ pointer # m
    /\ pointer' = m /\ menu' = m
    /\ UNCHANGED <<path, drawer, leaving>>

PointerEnters(m) ==
    /\ Hovers /\ pointer # m
    /\ pointer' = m /\ menu' = m /\ leaving' = FALSE
    /\ UNCHANGED <<path, drawer>>

PointerLeaves ==
    /\ pointer # Nowhere
    /\ pointer' = Nowhere /\ leaving' = TRUE
    /\ UNCHANGED <<path, menu, drawer>>

TimerEnds ==
    /\ leaving
    /\ menu' = Nowhere /\ leaving' = FALSE
    /\ UNCHANGED <<path, drawer, pointer>>

\* A click on a menu's button, or Enter.
Toggle(m) ==
    /\ menu' = IF menu = m THEN Nowhere ELSE m
    /\ UNCHANGED <<path, drawer, leaving, pointer>>

ToggleDrawer ==
    /\ drawer' = ~drawer
    /\ UNCHANGED <<path, menu, leaving, pointer>>

\* Escape, or a press of the pointer anywhere but on the bar.  The drawer is
\* not on the bar: a press on one of its links closes it before the click.
CloseAll ==
    /\ menu # Nowhere \/ drawer
    /\ menu' = Nowhere /\ drawer' = FALSE
    /\ UNCHANGED <<path, leaving, pointer>>

FocusLeaves ==
    /\ menu' = Nowhere
    /\ UNCHANGED <<path, drawer, leaving, pointer>>

\* Another page closes everything; the same one nothing.
Follows(p) ==
    /\ path' = p
    /\ menu' = IF p = path THEN menu ELSE Nowhere

FollowLink(p) ==
    /\ menu # Nowhere /\ p \in Links[menu]
    /\ Follows(p)
    /\ drawer' = (drawer /\ p = path)
    /\ UNCHANGED <<leaving, pointer>>

\* With the keyboard.
FollowDrawerLink(p) ==
    /\ drawer
    /\ Follows(p)
    /\ drawer' = FALSE
    /\ UNCHANGED <<leaving, pointer>>

\* A link of the page, the mark, the button to the bridge, or back.
Navigate(p) ==
    /\ p # path
    /\ Follows(p)
    /\ drawer' = FALSE
    /\ UNCHANGED <<leaving, pointer>>

HeaderNext ==
    \/ \E m \in Menus : PointerEnters(m) \/ Toggle(m)
    \/ PointerLeaves \/ TimerEnds \/ ToggleDrawer \/ CloseAll \/ FocusLeaves
    \/ \E p \in Paths : FollowLink(p) \/ FollowDrawerLink(p) \/ Navigate(p)

HeaderSpec == HeaderInit /\ [][HeaderNext]_headerVars
----------------------------------------------------------------------------
\* Leaving a menu closes it a moment later, "without it the menu vanishes while
\* the pointer crosses the gap" (SiteHeader.tsx): the delayed closing never
\* takes away the menu that the pointer has come back to, or gone on to.
HoverHolds == [][leaving /\ ~leaving' /\ menu' = Nowhere => pointer = Nowhere]_headerVars
=============================================================================
