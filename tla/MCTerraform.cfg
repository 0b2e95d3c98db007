SPECIFICATION Spec
CONSTANTS
  web = web
  job = job
  bucket = bucket
  table = table
  file = file
  admin = admin
  reader = reader
  app = app
  data = data
  aws_s3_bucket_b = aws_s3_bucket_b
  aws_s3_bucket_c = aws_s3_bucket_c
  Root = Root
  None = None
  Unlabelled = Unlabelled
  Bare = Bare
  Star = Star
  Roles <- TwoRoles
  Resources <- TwoResources
  Objects <- WithFile
  Attachments <- TwoAttachments
  Modules <- TwoModules
  Parent <- ModulesInRoot
  Labels <- TwoLabels
  Naming <- OwnNames
  Projects <- PlumbingAndAttaching
  Advised <- Advice
  CanFail = TRUE
INVARIANTS
  TypeOK
  PlannedRolesReachTheirResources
  PlannedRolesLoseAnAttachment
  DeclaredOnce
PROPERTIES
  PlansOnlyChanges
  UnplannedRolesKept
