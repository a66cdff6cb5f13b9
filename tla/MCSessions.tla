----------------------------- MODULE MCSessions -----------------------------
EXTENDS Sessions, TLC

BrowserReqSymmetry == Permutations(Browser) \union Permutations(Req)

=============================================================================
