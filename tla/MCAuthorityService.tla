------------------------ MODULE MCAuthorityService ------------------------
EXTENDS AuthorityService, TLC

\* Ids are opaque: drawn at random by the Authority or by the client.
Interchangeable ==
  Permutations(Licenses) \cup Permutations(Devices)
    \cup Permutations(Challenges) \cup Permutations(Requests)
===========================================================================
