CONSTANTS
  Address = 10
  Lim = 176
  Lengths <- MCLengths
  Pointers <- MCPointers
  NFILES = 5
  Context = {c1}
  File = {f1, f2}
  HostFd = {h1}
  NULL = NULL
  ShellSize = 16
  EnvSizes <- MCEnvSizes
  PspSize = 16
  ImageSizes <- MCImageSizes
  Fixups <- MCFixups
  MapsBehind <- MCMapsBehind
  Ctx = c1

VIEW View

SPECIFICATION Spec

INVARIANTS
  TypeOK
  CurrentProcessLive
  LoadSparesHeap
  HeapGivenBack
  FilesGivenBack
