CONSTANTS
  NFILES = 6
  Context = {c1}
  File = {f1, f2, f3, f4}
  HostFd = {h1, h2}
  NULL = NULL

SYMMETRY Symmetry

SPECIFICATION Spec

INVARIANTS
  TypeOK
  RefCountExact
  NoDangling
  HostFdsOwned
