SPECIFICATION Spec
CONSTANTS
  j1 = j1  j2 = j2  j3 = j3  j4 = j4  r1 = r1  r2 = r2  r3 = r3
  Releases = {r1, r2, r3}
  Scenarios <- RefusedFile
  None = None
PROPERTY StaysRouted
