----------------------------- MODULE DesktopMC -----------------------------
EXTENDS Desktop

\* A number in range, one outside, AUTO, a delay above and a level above.
MCOptions ==
    {Option("n", "0", 0), Option("n", "9", 9), Option("n", "AUTO", 0),
     Option("p", "9", 9), Option("v", "7", 7), Option("d", "stop", 0),
     Option("d", "other", 0), Option("h", "", 0)}
=============================================================================
