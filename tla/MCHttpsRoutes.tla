--------------------------- MODULE MCHttpsRoutes ---------------------------
(* The small instance of HttpsRoutes that TLC checks.                        *)
EXTENDS HttpsRoutes, TLC

MCSymmetry == Permutations(Vms) \cup Permutations(Ips)
                \cup Permutations(Subdomains)
=============================================================================
