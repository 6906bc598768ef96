SPECIFICATION Spec
CONSTANTS
  zip = zip
  dir = dir
  x = x
  obj = obj
  Empty = Empty
  NoSource = NoSource
  NoFile = NoFile
  None = None
  Unnamed = Unnamed
  Packages = {zip, dir}
  Directories = {dir}
  Large = {dir}
  Patches = {x, Empty}
  Names = {"a", "b"}
  BaseName <- MCBaseName
  FirstFiles <- MCFirstFiles
  Objects = {obj}
  FirstID = 3
  MaxIDs = 3
  MaxCrashes = 1
INVARIANT Accounted
PROPERTIES OthersKept NeverLost
