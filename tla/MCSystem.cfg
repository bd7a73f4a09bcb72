SPECIFICATION Spec
CONSTANTS
  BSIZE = 3
  NDIRECT = 2
  NINDIRECT = 4
  NMETA = 2
  FSSIZE = 34
  NINODES = 20
  NINODE = 7
  NFILE = 8
  NOFILE = 6
  NPROC = 5
  PIPESIZE = 2
  MaxWrite = 4
  ARGWORDS = 4
  PGSIZE = 2
  NPTENTRIES = 4
  NPDENTRIES = 12
  NPAGES = 50
  INPUT_BUF = 8
  IndexWrap = 16
  ROWS = 3
  COLS = 4
  MAXARGS = 4
  CatBuf = 2
  Rounds = 3
  Truncated <- MCTruncated
  Jobs <- MCJobs
  Tests = {"iputtest", "exitiputtest", "openiputtest", "opentest", "createtest", "dirtest",
           "rmdot", "dirfile", "iref", "fourteen", "bigdir", "linktest", "subdir", "writetest",
           "writetest1", "unlinkread", "bigwrite", "bigfile", "sharedfd", "splitwrites", "fourfiles",
           "createdelete", "concreate", "linkunlink", "pipe1", "preempt", "exitwait", "forktest",
           "descriptors", "sbrktest", "mem", "bsstest", "bigargtest", "exectest",
           "validatetest", "uio", "argptest", "shortage"}
INVARIANTS
  DiskConsistent
  RefsExact
  PagesHaveOneOwner
  TestsPass
  CommandsDone
PROPERTIES
  WritesStayInFile
  JobsEnd
CHECK_DEADLOCK FALSE
