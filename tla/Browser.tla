------------------------------- MODULE Browser -------------------------------
(* What the parts of the pages have in common.                             *)
CONSTANTS
  Tabs,   \* the tabs of one browser, or of several, with the site open
  None    \* nothing: an empty field, no wallet
=============================================================================
